---- MODULE Spec2Model ----
(***************************************************************************)
(* Model of the periodic snapshotter of zrepl (package snapper) and of the *)
(* hook runner it calls.  Times are integers (clock ticks); the external   *)
(* ZFS commands and the hook programs are the environment and answer       *)
(* nondeterministically.                                                   *)
(***************************************************************************)
EXTENDS Integers, Sequences, FiniteSets, TLC

\* ------------------------------------------------------------------------
\* Bounds of the model: the number of filesystems the host can report, the
\* last tick of the clock, the largest configured interval (in ticks), the
\* longest timeout of a hook (in ticks), the capacity of the snapshotsTaken
\* channel, the ticks that make a second
\* ------------------------------------------------------------------------
NumFS == 2
MaxTime == 3
MaxInterval == 2
MaxTimeout == 2
\* the longest byte slice given to one call of logWriter.Write
MaxChunk == 3
\* how many calls of Write precede the Close of a logWriter
MaxWrites == 2
\* the longest command directory, command and dataset path string
MaxPathLen == 3
\* how many methods are called on a DatasetPath
MaxOps == 2
\* the greatest create-txg of a snapshot
MaxTXG == 2
ChanCap == 1
TicksPerSec == 2

\* ------------------------------------------------------------------------
\* Types and constants of the source
\* ------------------------------------------------------------------------
FSes == 1..NumFS

NoFS == 0

ZeroTime == 0

SnapStates == {"SnapPending", "SnapStarted", "SnapDone", "SnapError"}

States == {"SyncUp", "SyncUpErrWait", "Planning", "Snapshotting",
           "Waiting", "ErrorWait", "Stopped"}

\* a State.sf that runs snapshot again in ErrorWait
sf_ErrorWaitSnapshots(s) ==
    CASE s = "SyncUp"        -> "syncUp"
      [] s = "SyncUpErrWait" -> "wait"
      [] s = "Planning"      -> "plan"
      [] s = "Snapshotting"  -> "snapshot"
      [] s = "Waiting"       -> "wait"
      [] s = "ErrorWait"     -> "snapshot"
      [] s = "Stopped"       -> "done"

\* State.sf: the state function that runs a state; "done" is the nil state
\* function that ends the loop of Run.
sf(s) ==
    CASE s = "SyncUp"        -> "syncUp"
      [] s = "SyncUpErrWait" -> "wait"
      [] s = "Planning"      -> "plan"
      [] s = "Snapshotting"  -> "snapshot"
      [] s = "Waiting"       -> "wait"
      [] s = "ErrorWait"     -> "wait"
      [] s = "Stopped"       -> "done"

\* the empty string of snapProgress.name
NoName == -1

\* snapProgress{state: SnapPending}, the value plan() stores for each fs.
\* The fields startAt and doneAt are written by snapshot() and read nowhere;
\* they are left out.
PendingProgress == [state |-> "SnapPending", name |-> NoName, err |-> "nil"]

\* time.Now().In(time.UTC).Format("20060102_150405_000"): the layout has no
\* fractional-second verb (that needs ".000" or ",000"), so the name carries
\* the clock truncated to whole seconds followed by the literal "_000".
SnapName(t) == t \div TicksPerSec

\* the suffix as a string, with the literal "_000" of the layout
Suffix(t) == ToString(SnapName(t)) \o "_000"

\* snapname := fmt.Sprintf("%s%s", a.prefix, suffix)
Snapname(p, t) == p \o Suffix(t)

\* no snapshot name
NoSnapname == ""

\* DatasetPath.comps of the filesystems of the model: datasets of one pool
Comps(fs) == <<"zroot", "fs" \o ToString(fs)>>

\* strings.Join(comps, "/")
RECURSIVE Join(_)
Join(comps) ==
    IF Len(comps) = 0 THEN ""
    ELSE IF Len(comps) = 1 THEN comps[1]
    ELSE comps[1] \o "/" \o Join(Tail(comps))

\* DatasetPath.ToString
DatasetPathToString(fs) == Join(Comps(fs))

\* the map literal hookEnv of snapshot()
HookEnv(fs, name) ==
    [ZREPL_HOOKTYPE |-> "pre", ZREPL_PHASE |-> "Snapshotting",
     ZREPL_FS |-> DatasetPathToString(fs), ZREPL_SNAPNAME |-> name]

\* no hookEnv: outside an iteration, or a hook that was not run
NoEnv ==
    [ZREPL_HOOKTYPE |-> "none", ZREPL_PHASE |-> "none", ZREPL_FS |-> "",
     ZREPL_SNAPNAME |-> NoSnapname]

\* a post-hook that is handed the map as the pre-hook got it
PostEnv_StillPre(env) == env

\* hookEnv["ZREPL_HOOKTYPE"] = "post"
PostEnv(env) == [env EXCEPT !.ZREPL_HOOKTYPE = "post"]

\* no call of zfs.ZFSSnapshot
NoSnapArgs == [fs |-> NoFS, name |-> NoSnapname]

\* What the environment has seen for one filesystem in the current round:
\* how often its procedure was begun, the name chosen, what zfs snapshot
\* answered and with which arguments it was called, the environment the
\* pre-hook got and the one the post-hook got.
NoCalls ==
    [n |-> 0, snap |-> "none", name |-> NoName, snapArgs |-> NoSnapArgs,
     preEnv |-> NoEnv, postEnv |-> NoEnv]

\* ------------------------------------------------------------------------
\* findSyncPoint
\* ------------------------------------------------------------------------
\* sort.SliceStable(fsvs, less by CreateTXG): stable insertion of v into the
\* sorted sequence s, after every element that is not greater.
RECURSIVE InsertByTXG(_, _)
InsertByTXG(s, v) ==
    IF s = << >> THEN <<v>>
    ELSE IF v.CreateTXG < s[Len(s)].CreateTXG
         THEN Append(InsertByTXG(SubSeq(s, 1, Len(s) - 1), v), s[Len(s)])
         ELSE Append(s, v)

RECURSIVE SortStableByTXG(_)
SortStableByTXG(fsvs) ==
    IF fsvs = << >> THEN << >>
    ELSE InsertByTXG(SortStableByTXG(SubSeq(fsvs, 1, Len(fsvs) - 1)),
                     fsvs[Len(fsvs)])

\* the last element of the listing as it came, without the sort
Latest_Unsorted(fsvs) == fsvs[Len(fsvs)]

\* latest := fsvs[len(fsvs)-1] after the sort
Latest(fsvs) == SortStableByTXG(fsvs)[Len(fsvs)]

\* a check that lets snapshots from the future pass
FromTheFuture_Never(creation, t) == FALSE

\* since := now.Sub(latest.Creation); if since < 0
FromTheFuture(creation, t) == t - creation < 0

\* a proposal that is never clamped to now
NextTime_NoClamp(creation, t, ival) == creation + ival

\* a proposal that is always now
NextTime_Now(creation, t, ival) == t

\* next := now; if since < interval { next = latest.Creation.Add(interval) }
NextTime(creation, t, ival) ==
    IF t - creation < ival THEN creation + ival ELSE t

\* The time one filesystem proposes, as a set: empty when the filesystem is
\* skipped (listing error, no prefixed snapshot, snapshot from the future).
Proposal(r, t, ival) ==
    IF r.err THEN {}
    ELSE IF Len(r.fsvs) <= 0 THEN {}
    ELSE LET latest == Latest(r.fsvs)
         IN  IF FromTheFuture(latest.Creation, t) THEN {}
             ELSE {NextTime(latest.Creation, t, ival)}

\* the slice snaptimes after the loop over fss, as a function from the
\* filesystems that contributed a snapTime{d, next} to the time next
Proposals(fss, vers, t, ival) ==
    [d \in {e \in fss : Proposal(vers[e], t, ival) # {}} |->
        CHOOSE x \in Proposal(vers[d], t, ival) : TRUE]

\* the times of snaptimes after the loop over fss
SnapTimes(fss, vers, t, ival) ==
    UNION {Proposal(vers[d], t, ival) : d \in fss}

\* the last element of the sorted slice instead of the first
Earliest_Last(times) == CHOOSE x \in times : \A y \in times : x >= y

\* snaptimes[0].time after sort.Slice by time
Earliest(times) == CHOOSE x \in times : \A y \in times : x <= y

\* a degenerate proposal one interval from now
AssumeNow_NextInterval(t, ival) == t + ival

\* if len(snaptimes) == 0 { snaptimes = append(snaptimes, snapTime{nil, now}) }
AssumeNow(t, ival) == t

\* findSyncPoint(log, fss, prefix, interval) called at time t, where vers[d]
\* is what ZFSListFilesystemVersions answers for d with the prefix filter.
findSyncPoint(fss, vers, t, ival) ==
    IF fss = {} THEN t
    ELSE LET snaptimes == SnapTimes(fss, vers, t, ival)
         IN  IF snaptimes = {} THEN Earliest({AssumeNow(t, ival)})
             ELSE Earliest(snaptimes)

\* Answers of ZFSListFilesystemVersions for one filesystem: an error or the
\* list of its snapshots carrying the prefix.
Versions == [CreateTXG : {1}, Creation : 0..(MaxTime + 1)]

VersionLists ==
    {[err |-> TRUE, fsvs |-> << >>], [err |-> FALSE, fsvs |-> << >>]}
    \cup {[err |-> FALSE, fsvs |-> <<v>>] : v \in Versions}

\* A call of findSyncPoint as syncUp makes it: its argument fss, what
\* ZFSListFilesystemVersions answers for each filesystem of fss, and its
\* local variable now.
FindSyncPointCalled(fss, vers, t) ==
    [step |-> "called", fss |-> fss, fsvs |-> vers, now |-> t]

\* The same call when it has returned: its slice snaptimes after the loop
\* and its two results. No path through findSyncPoint assigns err.
FindSyncPointReturned(c, ival) ==
    [step |-> "returned", fss |-> c.fss, fsvs |-> c.fsvs, now |-> c.now,
     snaptimes |-> Proposals(c.fss, c.fsvs, c.now, ival),
     syncPoint |-> findSyncPoint(c.fss, c.fsvs, c.now, ival),
     err |-> "nil"]

\* no call of findSyncPoint is in scope
NoSyncCall == [step |-> "none"]

\* ------------------------------------------------------------------------
\* PeriodicFromConfig
\* ------------------------------------------------------------------------
\* the prefixes a valid configuration may carry
Prefixes == {"zrepl_"}

\* config.SnapshottingPeriodic as far as PeriodicFromConfig reads it; of the
\* hook settings only whether a command is configured and the keep switch
Configs ==
    [prefix : Prefixes \cup {""}, interval : (-1)..MaxInterval,
     hooks : [pre : BOOLEAN, post : BOOLEAN, keep : BOOLEAN]]

\* a check that accepts every interval
ConfigOK_AnyInterval(c) == c.prefix # ""

\* neither of the two early returns of PeriodicFromConfig is taken
ConfigOK(c) == c.prefix # "" /\ c.interval > 0

\* the zero value of config.HookSettings
NoHooks == [pre |-> FALSE, post |-> FALSE, keep |-> FALSE]

\* ------------------------------------------------------------------------
\* hooks.RunHookCommand
\* ------------------------------------------------------------------------
\* What the program behind the command does when it is left alone.
Programs == {"exits0", "exits1", "never"}

\* no call of RunHookCommand is followed
NoHookCall == [step |-> "none"]

\* RunHookCommand has been called at time t with the given timeout, for a
\* command that can or cannot be started and behaves as program says;
\* cmdCtx, cancel := context.WithTimeout(ctx, timeout)
HookCalled(t, timeout, startable, program) ==
    [step |-> "called", deadline |-> t + timeout, startable |-> startable,
     program |-> program, proc |-> "none", result |-> "none"]

\* a command context that forgets the timeout
CmdCtxDone_ParentOnly(done, deadline, t) == done

\* cmdCtx is done: the caller's context is cancelled or the deadline of
\* context.WithTimeout has come
CmdCtxDone(done, deadline, t) == done \/ t >= deadline

\* a Wait that reports only the kill
WaitResult_KillOnly(proc) == IF proc = "killed" THEN "err" ELSE "nil"

\* err = cmdExec.Wait(): nil if the process exited with status zero, an
\* *exec.ExitError if it exited otherwise or was killed
WaitResult(proc) == IF proc = "exit0" THEN "nil" ELSE "err"

\* ------------------------------------------------------------------------
\* logWriter: a bytes.Buffer read by a bufio.Scanner with the default split
\* function, bufio.ScanLines
\* ------------------------------------------------------------------------
\* the newline byte
NL == "\n"

\* the bytes a hook writes
Bytes == {"a", NL}

\* the position of the first newline in data, 0 if there is none
IndexNL(data) ==
    IF \E i \in 1..Len(data) : data[i] = NL
    THEN CHOOSE i \in 1..Len(data) :
            data[i] = NL /\ \A j \in 1..(i - 1) : data[j] # NL
    ELSE 0

\* bufio.ScanLines(data, atEOF): how far to advance and the token, if any.
\* (The bytes of the model hold no carriage return, so dropCR changes
\* nothing.)
ScanLines(data, atEOF) ==
    IF atEOF /\ Len(data) = 0
    THEN [advance |-> 0, some |-> FALSE, token |-> << >>]
    ELSE IF IndexNL(data) > 0
    THEN [advance |-> IndexNL(data), some |-> TRUE,
          token |-> SubSeq(data, 1, IndexNL(data) - 1)]
    ELSE IF atEOF
    THEN [advance |-> Len(data), some |-> TRUE, token |-> data]
    ELSE [advance |-> 0, some |-> FALSE, token |-> << >>]

\* A new logWriter: buf is the unread content of the bytes.Buffer, data the
\* bytes the Scanner holds (buf[start:end]), eof whether the Scanner has
\* recorded io.EOF as its error, token what Text() returns, lines what was
\* passed to logFunc.
NewLogWriter ==
    [buf |-> << >>, data |-> << >>, eof |-> FALSE, token |-> << >>,
     lines |-> << >>]

\* Scanner.Scan on the writer w: the writer afterwards and, in ok, what Scan
\* returned. A token ends the loop; without one, a Scanner that has seen
\* io.EOF gives up and drops its data, and one that has not reads the
\* buffer: bytes.Buffer.Read hands over what is unread, or io.EOF if there
\* is nothing.
RECURSIVE Scan(_)
Scan(w) ==
    LET tried == w.data # << >> \/ w.eof
        s == ScanLines(w.data, w.eof)
    IN  IF tried /\ s.some
        THEN [w |-> [w EXCEPT
                       !.data = SubSeq(w.data, s.advance + 1, Len(w.data)),
                       !.token = s.token],
              ok |-> TRUE]
        ELSE IF w.eof
        THEN [w |-> [w EXCEPT !.data = << >>, !.token = << >>],
              ok |-> FALSE]
        ELSE IF w.buf # << >>
        THEN Scan([w EXCEPT !.data = w.data \o w.buf, !.buf = << >>])
        ELSE Scan([w EXCEPT !.eof = TRUE])

\* logWriter.Write(in): append to the buffer, scan once, log the token
Write(w, in) ==
    LET r == Scan([w EXCEPT !.buf = w.buf \o in])
    IN  IF r.ok THEN [r.w EXCEPT !.lines = Append(@, r.w.token)] ELSE r.w

\* logWriter.Close(): scan once more and log a token that is not empty
Close(w) ==
    LET r == Scan(w)
    IN  IF r.w.token # << >> THEN [r.w EXCEPT !.lines = Append(@, r.w.token)]
        ELSE r.w

\* no logWriter in scope
NoLogWriter ==
    [w |-> NewLogWriter, pending |-> << >>, written |-> << >>,
     closed |-> TRUE]

\* ------------------------------------------------------------------------
\* Strings as sequences of characters: strings.Split, strings.Join and the
\* functions of path/filepath that RunHookCommand uses
\* ------------------------------------------------------------------------
\* the path separator
Sep == "/"

\* the position of the first separator in s, 0 if there is none
IndexSep(s) ==
    IF \E i \in 1..Len(s) : s[i] = Sep
    THEN CHOOSE i \in 1..Len(s) : s[i] = Sep /\ \A j \in 1..(i - 1) : s[j] # Sep
    ELSE 0

\* strings.Split(s, "/"): the pieces between the separators, empty pieces
\* included; a string without separator is its only piece
RECURSIVE Split(_)
Split(s) ==
    IF IndexSep(s) = 0 THEN <<s>>
    ELSE <<SubSeq(s, 1, IndexSep(s) - 1)>>
            \o Split(SubSeq(s, IndexSep(s) + 1, Len(s)))

\* strings.Join(comps, "/") on sequences of characters
RECURSIVE JoinSep(_)
JoinSep(comps) ==
    IF Len(comps) = 0 THEN << >>
    ELSE IF Len(comps) = 1 THEN comps[1]
    ELSE comps[1] \o <<Sep>> \o JoinSep(Tail(comps))

\* filepath.IsAbs on Unix: strings.HasPrefix(path, "/")
IsAbs(path) == Len(path) > 0 /\ path[1] = Sep

\* the elements filepath.Clean keeps of the pieces cs of a path, given the
\* elements out kept so far: empty pieces and "." are dropped, ".." removes
\* the element before it, is dropped at the root and is kept at the start of
\* a relative path
RECURSIVE CleanComps(_, _, _)
CleanComps(cs, out, rooted) ==
    IF cs = << >> THEN out
    ELSE LET c == Head(cs)
             rest == Tail(cs)
         IN  IF c = << >> \/ c = <<".">> THEN CleanComps(rest, out, rooted)
             ELSE IF c = <<".", ".">>
             THEN IF out # << >> /\ out[Len(out)] # <<".", ".">>
                  THEN CleanComps(rest, SubSeq(out, 1, Len(out) - 1), rooted)
                  ELSE IF rooted THEN CleanComps(rest, out, rooted)
                  ELSE CleanComps(rest, Append(out, c), rooted)
             ELSE CleanComps(rest, Append(out, c), rooted)

\* filepath.Clean: the shortest equivalent path; "." for an empty result
Clean(path) ==
    LET kept == JoinSep(CleanComps(Split(path), << >>, IsAbs(path)))
        res == IF IsAbs(path) THEN <<Sep>> \o kept ELSE kept
    IN  IF res = << >> THEN <<".">> ELSE res

\* filepath.Join(commandDir, command): the elements from the first non-empty
\* one on are joined with the separator and cleaned; "" if all are empty
FilepathJoin(commandDir, command) ==
    IF commandDir # << >> THEN Clean(commandDir \o <<Sep>> \o command)
    ELSE IF command # << >> THEN Clean(command)
    ELSE << >>

\* lines 86-92 of RunHookCommand
CmdPath(commandDir, command) ==
    IF IsAbs(command) THEN command ELSE FilepathJoin(commandDir, command)

\* exec.CommandContext(cmdCtx, name): a name without path separator is
\* looked up in the directories of PATH, any other name is used as it is
LookedUpInPATH(name) == IndexSep(name) = 0

\* ------------------------------------------------------------------------
\* zfs.DatasetPath
\* ------------------------------------------------------------------------
\* const FORBIDDEN = "@#|\t<>*"
Forbidden == {"@", "#", "|", "\t", "<", ">", "*"}

\* strings.ContainsAny(s, FORBIDDEN)
ContainsForbidden(s) == \E i \in 1..Len(s) : s[i] \in Forbidden

\* NewDatasetPath that accepts a trailing separator
NewDatasetPath_TrailingSlash(s) ==
    IF s = << >> THEN [comps |-> << >>, err |-> "nil"]
    ELSE IF ContainsForbidden(s) THEN [comps |-> << >>, err |-> "forbidden"]
    ELSE [comps |-> Split(s), err |-> "nil"]

\* NewDatasetPath that drops the empty components
NewDatasetPath_DropsEmpty(s) ==
    IF s = << >> THEN [comps |-> << >>, err |-> "nil"]
    ELSE IF ContainsForbidden(s) THEN [comps |-> << >>, err |-> "forbidden"]
    ELSE IF Split(s)[Len(Split(s))] = << >>
    THEN [comps |-> Split(s), err |-> "slash"]
    ELSE [comps |-> SelectSeq(Split(s), LAMBDA c : c # << >>), err |-> "nil"]

\* NewDatasetPath(s): the path p and the error; comps is what p.comps holds
\* at the return, also when an error is returned with it
NewDatasetPath(s) ==
    IF s = << >> THEN [comps |-> << >>, err |-> "nil"]
    ELSE IF ContainsForbidden(s) THEN [comps |-> << >>, err |-> "forbidden"]
    ELSE IF Split(s)[Len(Split(s))] = << >>
    THEN [comps |-> Split(s), err |-> "slash"]
    ELSE [comps |-> Split(s), err |-> "nil"]

\* DatasetPath.ToString of a path with the components comps
ToStr(comps) == JoinSep(comps)

\* DatasetPath.Extend
Extend(comps, extend) == comps \o extend

\* DatasetPath.HasPrefix
HasPrefix(comps, prefix) ==
    /\ Len(prefix) <= Len(comps)
    /\ \A i \in 1..Len(prefix) : prefix[i] = comps[i]

\* TrimPrefix that cuts as many components as prefix has, matching or not
TrimPrefix_Unchecked(comps, prefix) ==
    IF Len(prefix) > Len(comps) THEN comps
    ELSE SubSeq(comps, Len(prefix) + 1, Len(comps))

\* DatasetPath.TrimPrefix
TrimPrefix(comps, prefix) ==
    IF ~HasPrefix(comps, prefix) THEN comps
    ELSE SubSeq(comps, Len(prefix) + 1, Len(comps))

\* DatasetPath.TrimNPrefixComps
TrimNPrefixComps(comps, n) ==
    LET k == IF Len(comps) < n THEN Len(comps) ELSE n
    IN  IF k = 0 THEN comps ELSE SubSeq(comps, k + 1, Len(comps))

\* DatasetPath.Equal
Equal(p, q) == Len(p) = Len(q) /\ \A i \in 1..Len(p) : p[i] = q[i]

\* DatasetPath.Copy
Copy(comps) == [i \in 1..Len(comps) |-> comps[i]]

\* no call of RunHookCommand whose command is being resolved
NoHookCmd == [step |-> "none"]

\* no DatasetPath under construction
NoPaths == [step |-> "none"]

\* ------------------------------------------------------------------------
\* Helpers of the state functions
\* ------------------------------------------------------------------------
\* onErr with the cases of its switch mixed up
OnErrState_Mixed(s) ==
    CASE s = "SyncUp"       -> "ErrorWait"
      [] s = "Planning"     -> "SyncUpErrWait"
      [] s = "Snapshotting" -> "ErrorWait"
      [] OTHER              -> s

\* the switch of onErr
OnErrState(s) ==
    CASE s = "SyncUp"       -> "SyncUpErrWait"
      [] s = "Planning"     -> "ErrorWait"
      [] s = "Snapshotting" -> "ErrorWait"
      [] OTHER              -> s

\* onMainCtxDone that records the error but goes on with the next round
OnMainCtxDoneState_GoesOn == "Planning"

\* the state onMainCtxDone sets
OnMainCtxDoneState == "Stopped"

\* onMainCtxDone that leaves snapper.err as it was
OnMainCtxDoneErr_Kept(e) == e

\* s.err = ctx.Err() in onMainCtxDone; e is snapper.err before the call
OnMainCtxDoneErr(e) == "ctxErr"

\* the state the timer branch of syncUp and wait sets
TimerState == "Planning"

\* a plan that leaves out what was listed
PlanOf_Empty(fss) == [f \in {} |-> PendingProgress]

\* plan := make(map[*zfs.DatasetPath]snapProgress, len(fss));
\* for _, fs := range fss { plan[fs] = snapProgress{state: SnapPending} }
PlanOf(fss) == [f \in fss |-> PendingProgress]

\* the state plan sets after a successful listing
PlannedState == "Snapshotting"

\* a timer that never fires
TimerFired_Never(t, n) == FALSE

\* a timer that is always ready
TimerFired_Always(t, n) == TRUE

\* the timer created by time.NewTimer(time.Until(t)) has fired
TimerFired(t, n) == n >= t

\* hooks.RunHookCommand: exec.CommandContext refuses to start (or kills) the
\* program when the context is done; otherwise the program decides.
RunHookCommand(done) == IF done THEN {"err"} ELSE {"nil", "err"}

\* the condition without the keep-on-error switch
ShouldSnapshot_NoKeep(preErr, keep) == preErr = "nil"

\* if preHookErr == nil || a.hooks.Keep
ShouldSnapshot(preErr, keep) == preErr = "nil" \/ keep

\* hadErr after zfs.ZFSSnapshot returned e
HadErrAfterSnapshot(h, e) == h \/ e # "nil"

\* a skipped snapshot that does not count as an error
HadErrAfterSkip_Forgotten(h) == h

\* hadErr after the snapshot was skipped
HadErrAfterSkip(h) == TRUE

\* a post-hook that runs whatever became of the snapshot
ShouldRunPost_AnyOutcome(h, post) == post

\* if !hadErr { ... if a.hooks.Post != "" { RunHookCommand } }
ShouldRunPost(h, post) == ~h /\ post

\* a post-hook failure that counts as an error of the round
HadErrAfterPost_Counted(h, e) == h \/ e # "nil"

\* hadErr after the post-hook returned e: the error is only logged
HadErrAfterPost(h, e) == h

\* progress.state set by the last updater call of an iteration
FinalSnapState(e) == IF e # "nil" THEN "SnapError" ELSE "SnapDone"

\* for fs, progress := range plan: progress is a copy of the map's value
\* and the loop never stores it back, so the map keeps what plan() put in.
PlanAfterIteration(p, fs, prog) == p

\* a loop that ends at the first error
LoopDone_AtFirstError(left, h) == left = {} \/ h

\* the range loop over plan is over
LoopDone(left, h) == left = {}

\* a send whose value is always discarded
ChanAfterSend_Dropped(len) == len

\* len(a.snapshotsTaken) after select { case a.snapshotsTaken <- struct{}{}:
\* default: }: the value is queued if the channel has room, else discarded
ChanAfterSend(len) == IF len < ChanCap THEN len + 1 ELSE len

\* what became of the value of a send that found len values in the channel
\* and left len2
SendOutcome(len, len2) == IF len2 > len THEN "queued" ELSE "discarded"

\* the state the last updater call of snapshot sets
RoundState(h) == IF h THEN "ErrorWait" ELSE "Waiting"

\* a last updater call that clears snapper.err after a round without error
RoundErr_Cleared(h, e) == IF h THEN "snapErr" ELSE "nil"

\* snapper.err after the last updater call of snapshot
RoundErr(h, e) == IF h THEN "snapErr" ELSE e

\* the observer's record after plan() has set lastInvocation to t
RecordInvocation(inv, t) ==
    IF inv = << >> THEN <<t>> ELSE <<inv[Len(inv)], t>>

\* a wait that sleeps until the last invocation itself
WaitSleepUntil_NoInterval(last, ival) == last

\* snapper.sleepUntil = lastTick.Add(a.interval)
WaitSleepUntil(last, ival) == last + ival

VARIABLES
    state, lastInvocation, plan, sleepUntil, err,
    hooks, interval, prefix,
    pc, fsLeft, cur, progress, hadErr, preHookErr, snapErr, postHookErr,
    now, ctxDone, chanLen,
    calls, preFailed, postFailed, sends, listed,
    invocations,
    syncCall,
    cfg, built,
    hookCall,
    logWriter,
    snapname, hookEnv,
    hookCmd, dp,
    prevNames

\* the fields of Snapper that the mutex guards
snapperVars == <<state, lastInvocation, plan, sleepUntil, err>>
\* the fields of args set by PeriodicFromConfig
argVars == <<hooks, interval, prefix>>
\* the local variables of snapshot()
localVars ==
    <<fsLeft, cur, progress, hadErr, preHookErr, snapErr, postHookErr>>
\* the clock, the context of Run, the snapshotsTaken channel
envVars == <<now, ctxDone, chanLen>>
\* what the environment has seen of the current round: per filesystem, how
\* often its procedure was begun, the snapshot name chosen for it and what
\* zfs snapshot answered; whether a
\* pre-hook failed; whether a post-hook failed; the filesystems the listing
\* of its Planning step returned; the sends attempted on the
\* snapshotsTaken channel, each with what became of its value
roundVars == <<calls, preFailed, postFailed, sends, listed>>
\* what an observer of Planning has recorded: the values plan() gave
\* lastInvocation in the latest two Planning rounds, oldest first
histVars == <<invocations, prevNames>>
\* the call of findSyncPoint made by syncUp, in scope until syncUp returns
findVars == <<syncCall>>
\* the configuration given to PeriodicFromConfig and what it returned
configVars == <<cfg, built>>
\* a call of hooks.RunHookCommand, followed from its entry to its return
hookVars == <<hookCall>>
\* a logWriter of RunHookCommand with the Write calls still to come, the
\* bytes written so far and whether Close has been called
logVars == <<logWriter>>
\* the locals snapname and hookEnv of an iteration of snapshot()
iterVars == <<snapname, hookEnv>>
\* the command of a call of RunHookCommand on its way to exec, and the
\* DatasetPaths built from strings and changed by their methods
pathVars == <<hookCmd, dp>>
vars ==
    <<snapperVars, argVars, pc, localVars, envVars, roundVars, histVars,
      findVars, configVars, hookVars, logVars, iterVars, pathVars>>

NoRound == [f \in FSes |-> NoCalls]

\* ------------------------------------------------------------------------
\* PeriodicFromConfig and the start of Run
\* ------------------------------------------------------------------------
Init ==
    /\ state = "SyncUp"
    /\ lastInvocation = ZeroTime
    /\ plan = [f \in {} |-> PendingProgress]
    /\ sleepUntil = ZeroTime
    /\ err = "nil"
    /\ hooks \in [pre : BOOLEAN, post : BOOLEAN, keep : BOOLEAN]
    /\ interval \in 1..MaxInterval
    /\ prefix \in Prefixes
    /\ cfg = [prefix |-> prefix, interval |-> interval, hooks |-> hooks]
    /\ built = "snapper"
    /\ hookCall = NoHookCall
    /\ pc = "syncUp"
    /\ fsLeft = {}
    /\ cur = NoFS
    /\ progress = PendingProgress
    /\ hadErr = FALSE
    /\ preHookErr = "nil"
    /\ snapErr = "nil"
    /\ postHookErr = "none"
    /\ now = 1
    /\ ctxDone = FALSE
    /\ chanLen = 0
    /\ calls = NoRound
    /\ preFailed = FALSE
    /\ postFailed = FALSE
    /\ sends = << >>
    /\ listed = {}
    /\ invocations = << >>
    /\ syncCall = NoSyncCall
    /\ logWriter = NoLogWriter
    /\ snapname = NoSnapname
    /\ hookEnv = NoEnv
    /\ hookCmd = NoHookCmd
    /\ dp = NoPaths
    /\ prevNames = [f \in FSes |-> NoName]

\* ------------------------------------------------------------------------
\* onErr and onMainCtxDone, as the updater runs them
\* ------------------------------------------------------------------------
onErr(e) ==
    /\ err' = e
    /\ state' = OnErrState(state)
    /\ pc' = sf(state')

onMainCtxDone ==
    /\ err' = OnMainCtxDoneErr(err)
    /\ state' = OnMainCtxDoneState
    /\ pc' = sf(state')

\* ------------------------------------------------------------------------
\* syncUp
\* ------------------------------------------------------------------------
SyncUpBegin ==
    /\ pc = "syncUp"
    /\ lastInvocation' = now
    /\ pc' = "syncUp_list"
    /\ UNCHANGED <<state, plan, sleepUntil, err, argVars, localVars, envVars,
                   roundVars>>
    /\ UNCHANGED <<histVars, findVars>>
    /\ UNCHANGED <<configVars, hookVars, logVars, iterVars, pathVars>>

SyncUpListErr ==
    /\ pc = "syncUp_list"
    /\ onErr("listErr")
    /\ UNCHANGED <<lastInvocation, plan, sleepUntil, argVars, localVars,
                   envVars, roundVars>>
    /\ UNCHANGED <<histVars, findVars>>
    /\ UNCHANGED <<configVars, hookVars, logVars, iterVars, pathVars>>

SyncUpListOK ==
    /\ pc = "syncUp_list"
    /\ \E fss \in SUBSET FSes :
         \E vers \in [fss -> VersionLists] :
            syncCall' = FindSyncPointReturned(
                            FindSyncPointCalled(fss, vers, now), interval)
    /\ sleepUntil' = syncCall'.syncPoint
    /\ pc' = "syncUp_select"
    /\ UNCHANGED <<state, lastInvocation, plan, err, argVars, localVars,
                   envVars, roundVars>>
    /\ UNCHANGED histVars
    /\ UNCHANGED <<configVars, hookVars, logVars, iterVars, pathVars>>

SyncUpTimer ==
    /\ pc = "syncUp_select"
    /\ TimerFired(sleepUntil, now)
    /\ state' = TimerState
    /\ pc' = sf(state')
    /\ UNCHANGED <<lastInvocation, plan, sleepUntil, err, argVars, localVars,
                   envVars, roundVars>>
    /\ UNCHANGED histVars
    /\ syncCall' = NoSyncCall
    /\ UNCHANGED <<configVars, hookVars, logVars, iterVars, pathVars>>

SyncUpCtxDone ==
    /\ pc = "syncUp_select"
    /\ ctxDone
    /\ onMainCtxDone
    /\ UNCHANGED <<lastInvocation, plan, sleepUntil, argVars, localVars,
                   envVars, roundVars>>
    /\ UNCHANGED histVars
    /\ syncCall' = NoSyncCall
    /\ UNCHANGED <<configVars, hookVars, logVars, iterVars, pathVars>>

\* ------------------------------------------------------------------------
\* plan
\* ------------------------------------------------------------------------
PlanBegin ==
    /\ pc = "plan"
    /\ lastInvocation' = now
    /\ pc' = "plan_list"
    /\ UNCHANGED <<state, plan, sleepUntil, err, argVars, localVars, envVars,
                   roundVars>>
    /\ invocations' = RecordInvocation(invocations, now)
    /\ UNCHANGED <<prevNames, findVars>>
    /\ UNCHANGED <<configVars, hookVars, logVars, iterVars, pathVars>>

PlanListErr ==
    /\ pc = "plan_list"
    /\ onErr("listErr")
    /\ UNCHANGED <<lastInvocation, plan, sleepUntil, argVars, localVars,
                   envVars, roundVars>>
    /\ UNCHANGED <<histVars, findVars>>
    /\ UNCHANGED <<configVars, hookVars, logVars, iterVars, pathVars>>

PlanListOK ==
    /\ pc = "plan_list"
    /\ \E fss \in SUBSET FSes : listed' = fss /\ plan' = PlanOf(fss)
    /\ state' = PlannedState
    /\ pc' = sf(state')
    /\ UNCHANGED <<lastInvocation, sleepUntil, err, argVars, localVars,
                   envVars, calls, preFailed, postFailed, sends>>
    /\ UNCHANGED <<histVars, findVars>>
    /\ UNCHANGED <<configVars, hookVars, logVars, iterVars, pathVars>>

\* ------------------------------------------------------------------------
\* snapshot
\* ------------------------------------------------------------------------
SnapshotBegin ==
    /\ pc = "snapshot"
    /\ fsLeft' = DOMAIN plan
    /\ hadErr' = FALSE
    /\ pc' = "snap_loop"
    /\ UNCHANGED <<snapperVars, argVars, cur, progress, preHookErr, snapErr,
                   postHookErr, envVars, roundVars>>
    /\ UNCHANGED <<histVars, findVars>>
    /\ UNCHANGED <<configVars, hookVars, logVars, iterVars, pathVars>>

\* the head of an iteration up to the updater call that sets SnapStarted
SnapLoop ==
    /\ pc = "snap_loop"
    /\ ~LoopDone(fsLeft, hadErr)
    /\ \E fs \in fsLeft :
         /\ cur' = fs
         /\ fsLeft' = fsLeft \ {fs}
         /\ calls' = [calls EXCEPT ![fs].n = @ + 1,
                                   ![fs].name = SnapName(now)]
    /\ snapname' = Snapname(prefix, now)
    /\ hookEnv' = HookEnv(cur', snapname')
    /\ progress' = [state |-> "SnapStarted", name |-> SnapName(now),
                    err |-> "nil"]
    /\ preHookErr' = "nil"
    /\ snapErr' = "nil"
    /\ postHookErr' = "none"
    /\ pc' = "snap_pre"
    /\ UNCHANGED <<snapperVars, argVars, hadErr, envVars, preFailed,
                   postFailed, sends, listed>>
    /\ UNCHANGED <<histVars, findVars>>
    /\ UNCHANGED <<configVars, hookVars, logVars, pathVars>>

SnapPreHook ==
    /\ pc = "snap_pre"
    /\ IF hooks.pre
       THEN \E r \in RunHookCommand(ctxDone) :
               /\ preHookErr' = r
               /\ preFailed' = (preFailed \/ r # "nil")
               /\ calls' = [calls EXCEPT ![cur].preEnv = hookEnv]
       ELSE UNCHANGED <<preHookErr, preFailed, calls>>
    /\ pc' = "snap_zfs"
    /\ UNCHANGED <<snapperVars, argVars, fsLeft, cur, progress, hadErr,
                   snapErr, postHookErr, envVars, postFailed, sends, listed>>
    /\ UNCHANGED <<histVars, findVars>>
    /\ UNCHANGED <<configVars, hookVars, logVars, iterVars, pathVars>>

SnapZFSSnapshot ==
    /\ pc = "snap_zfs"
    /\ ShouldSnapshot(preHookErr, hooks.keep)
    /\ \E r \in {"nil", "err"} :
         /\ snapErr' = r
         /\ hadErr' = HadErrAfterSnapshot(hadErr, r)
         /\ calls' = [calls EXCEPT
                        ![cur].snap = r,
                        ![cur].snapArgs = [fs |-> cur, name |-> snapname]]
    /\ pc' = "snap_post"
    /\ UNCHANGED <<snapperVars, argVars, fsLeft, cur, progress, preHookErr,
                   postHookErr, envVars, preFailed, postFailed, sends, listed>>
    /\ UNCHANGED <<histVars, findVars>>
    /\ UNCHANGED <<configVars, hookVars, logVars, iterVars, pathVars>>

SnapSkip ==
    /\ pc = "snap_zfs"
    /\ ~ShouldSnapshot(preHookErr, hooks.keep)
    /\ hadErr' = HadErrAfterSkip(hadErr)
    /\ pc' = "snap_fin"
    /\ UNCHANGED <<snapperVars, argVars, fsLeft, cur, progress, preHookErr,
                   snapErr, postHookErr, envVars, roundVars>>
    /\ UNCHANGED <<histVars, findVars>>
    /\ UNCHANGED <<configVars, hookVars, logVars, iterVars, pathVars>>

SnapPostHook ==
    /\ pc = "snap_post"
    /\ hookEnv' = IF ~hadErr THEN PostEnv(hookEnv) ELSE hookEnv
    /\ IF ShouldRunPost(hadErr, hooks.post)
       THEN \E r \in RunHookCommand(ctxDone) :
               /\ postHookErr' = r
               /\ hadErr' = HadErrAfterPost(hadErr, r)
               /\ postFailed' = (postFailed \/ r # "nil")
               /\ calls' = [calls EXCEPT ![cur].postEnv = hookEnv']
       ELSE UNCHANGED <<postHookErr, hadErr, postFailed, calls>>
    /\ pc' = "snap_fin"
    /\ UNCHANGED <<snapperVars, argVars, fsLeft, cur, progress, preHookErr,
                   snapErr, envVars, preFailed, sends, listed, snapname>>
    /\ UNCHANGED <<histVars, findVars>>
    /\ UNCHANGED <<configVars, hookVars, logVars, pathVars>>

\* the updater call that ends an iteration
SnapFin ==
    /\ pc = "snap_fin"
    /\ progress' = [progress EXCEPT !.state = FinalSnapState(snapErr),
                                    !.err = snapErr]
    /\ plan' = PlanAfterIteration(plan, cur, progress')
    /\ preHookErr' = "nil"
    /\ snapErr' = "nil"
    /\ postHookErr' = "none"
    /\ snapname' = NoSnapname
    /\ hookEnv' = NoEnv
    /\ pc' = "snap_loop"
    /\ UNCHANGED <<state, lastInvocation, sleepUntil, err, argVars, fsLeft,
                   cur, hadErr, envVars, roundVars>>
    /\ UNCHANGED <<histVars, findVars>>
    /\ UNCHANGED <<configVars, hookVars, logVars, pathVars>>

\* the loop is over: select { case a.snapshotsTaken <- struct{}{}: default: }
SnapNotify ==
    /\ pc = "snap_loop"
    /\ LoopDone(fsLeft, hadErr)
    /\ chanLen' = ChanAfterSend(chanLen)
    /\ sends' = Append(sends, SendOutcome(chanLen, chanLen'))
    /\ cur' = NoFS
    /\ progress' = PendingProgress
    /\ pc' = "snap_ret"
    /\ UNCHANGED <<snapperVars, argVars, fsLeft, hadErr, preHookErr, snapErr,
                   postHookErr, now, ctxDone, calls, preFailed, postFailed,
                   listed>>
    /\ UNCHANGED <<histVars, findVars>>
    /\ UNCHANGED <<configVars, hookVars, logVars, iterVars, pathVars>>

\* the last updater call of snapshot
SnapReturn ==
    /\ pc = "snap_ret"
    /\ state' = RoundState(hadErr)
    /\ err' = RoundErr(hadErr, err)
    /\ pc' = sf(state')
    /\ fsLeft' = {}
    /\ hadErr' = FALSE
    /\ UNCHANGED <<lastInvocation, plan, sleepUntil, argVars, cur, progress,
                   preHookErr, snapErr, postHookErr, envVars, roundVars>>
    /\ UNCHANGED <<histVars, findVars>>
    /\ UNCHANGED <<configVars, hookVars, logVars, iterVars, pathVars>>

\* ------------------------------------------------------------------------
\* wait
\* ------------------------------------------------------------------------
\* the first updater call of wait; the round that led here is over, and
\* what the environment has seen of it is forgotten
WaitBeginStep ==
    /\ pc = "wait"
    /\ sleepUntil' = WaitSleepUntil(lastInvocation, interval)
    /\ pc' = "wait_select"
    /\ calls' = NoRound
    /\ preFailed' = FALSE
    /\ postFailed' = FALSE
    /\ sends' = << >>
    /\ listed' = {}
    /\ UNCHANGED <<state, lastInvocation, plan, err, argVars, localVars,
                   envVars>>
    /\ UNCHANGED <<invocations, findVars>>
    /\ UNCHANGED <<configVars, hookVars, logVars, iterVars, pathVars>>

\* the first updater call of wait
WaitBegin == WaitBeginStep /\ UNCHANGED prevNames

\* the same step seen by an observer who keeps, for each filesystem, the
\* snapshot name of its latest procedure in the rounds that are over
WaitBeginObserved ==
    /\ WaitBeginStep
    /\ prevNames' = [f \in FSes |-> IF calls[f].n > 0 THEN calls[f].name
                                     ELSE prevNames[f]]

WaitTimer ==
    /\ pc = "wait_select"
    /\ TimerFired(sleepUntil, now)
    /\ state' = TimerState
    /\ pc' = sf(state')
    /\ UNCHANGED <<lastInvocation, plan, sleepUntil, err, argVars, localVars,
                   envVars, roundVars>>
    /\ UNCHANGED <<histVars, findVars>>
    /\ UNCHANGED <<configVars, hookVars, logVars, iterVars, pathVars>>

WaitCtxDone ==
    /\ pc = "wait_select"
    /\ ctxDone
    /\ onMainCtxDone
    /\ UNCHANGED <<lastInvocation, plan, sleepUntil, argVars, localVars,
                   envVars, roundVars>>
    /\ UNCHANGED <<histVars, findVars>>
    /\ UNCHANGED <<configVars, hookVars, logVars, iterVars, pathVars>>

\* ------------------------------------------------------------------------
\* The environment: the clock, the owner of the context, the receiver of
\* the snapshotsTaken channel
\* ------------------------------------------------------------------------
\* Run reads the clock only through time.Now() and its timers, and each such
\* read follows a blocking call (listing, hook, zfs snapshot, select): the
\* clock advances while Run is blocked in one of them.
Blocking ==
    {"syncUp_list", "syncUp_select", "plan_list", "snap_pre", "snap_zfs",
     "snap_post", "wait_select"}

Tick ==
    /\ pc \in Blocking
    /\ now < MaxTime
    /\ now' = now + 1
    /\ UNCHANGED <<snapperVars, argVars, pc, localVars, ctxDone, chanLen,
                   roundVars>>
    /\ UNCHANGED <<histVars, findVars>>
    /\ UNCHANGED <<configVars, hookVars, logVars, iterVars, pathVars>>

Cancel ==
    /\ ~ctxDone
    /\ pc # "done"
    /\ ctxDone' = TRUE
    /\ UNCHANGED <<snapperVars, argVars, pc, localVars, now, chanLen,
                   roundVars>>
    /\ UNCHANGED <<histVars, findVars>>
    /\ UNCHANGED <<configVars, hookVars, logVars, iterVars, pathVars>>

Receive ==
    /\ chanLen > 0
    /\ chanLen' = chanLen - 1
    /\ UNCHANGED <<snapperVars, argVars, pc, localVars, now, ctxDone,
                   roundVars>>
    /\ UNCHANGED <<histVars, findVars>>
    /\ UNCHANGED <<configVars, hookVars, logVars, iterVars, pathVars>>

\* one step of the goroutine that executes Run
RunStep ==
    \/ SyncUpBegin \/ SyncUpListErr \/ SyncUpListOK \/ SyncUpTimer
    \/ SyncUpCtxDone
    \/ PlanBegin \/ PlanListErr \/ PlanListOK
    \/ SnapshotBegin \/ SnapLoop \/ SnapPreHook \/ SnapZFSSnapshot
    \/ SnapSkip \/ SnapPostHook \/ SnapFin \/ SnapNotify
    \/ SnapReturn
    \/ WaitBegin \/ WaitTimer \/ WaitCtxDone

Next == RunStep \/ Tick \/ Cancel \/ Receive

Spec == Init /\ [][Next]_vars

\* Run with the observer of the snapshot names of earlier rounds
ObservedRunStep ==
    \/ SyncUpBegin \/ SyncUpListErr \/ SyncUpListOK \/ SyncUpTimer
    \/ SyncUpCtxDone
    \/ PlanBegin \/ PlanListErr \/ PlanListOK
    \/ SnapshotBegin \/ SnapLoop \/ SnapPreHook \/ SnapZFSSnapshot
    \/ SnapSkip \/ SnapPostHook \/ SnapFin \/ SnapNotify
    \/ SnapReturn
    \/ WaitBeginObserved \/ WaitTimer \/ WaitCtxDone

NameNext == ObservedRunStep \/ Tick \/ Cancel \/ Receive

NameSpec == Init /\ [][NameNext]_vars

\* ------------------------------------------------------------------------
\* Run without cancellation and with a clock that never stops. Time is
\* counted up to MaxTime; from there on, while Run sleeps in the select of
\* syncUp or wait, a tick of the clock moves the times Run still holds one
\* tick into the past instead (those at zero stay there: they are farther
\* back than any interval reaches). The observers of the call of
\* findSyncPoint and of the invocations start afresh.
\* ------------------------------------------------------------------------
\* t one tick further in the past
Earlier(t) == IF t > 0 THEN t - 1 ELSE 0

TickAtHorizon ==
    /\ pc \in {"syncUp_select", "wait_select"}
    /\ now = MaxTime
    /\ sleepUntil > now
    /\ sleepUntil' = Earlier(sleepUntil)
    /\ lastInvocation' = Earlier(lastInvocation)
    /\ syncCall' = NoSyncCall
    /\ invocations' = << >>
    /\ UNCHANGED <<state, plan, err, argVars, pc, localVars, envVars,
                   roundVars, prevNames>>
    /\ UNCHANGED <<configVars, hookVars, logVars, iterVars, pathVars>>

\* the steps of Run that do not need a cancelled context
UncancelledRunStep ==
    \/ SyncUpBegin \/ SyncUpListErr \/ SyncUpListOK \/ SyncUpTimer
    \/ PlanBegin \/ PlanListErr \/ PlanListOK
    \/ SnapshotBegin \/ SnapLoop \/ SnapPreHook \/ SnapZFSSnapshot
    \/ SnapSkip \/ SnapPostHook \/ SnapFin \/ SnapNotify
    \/ SnapReturn
    \/ WaitBegin \/ WaitTimer

ProgressNext == UncancelledRunStep \/ Tick \/ TickAtHorizon \/ Receive

\* Run keeps stepping (every listing, hook and zfs snapshot call returns)
\* and the clock keeps ticking while Run sleeps.
ProgressSpec ==
    /\ Init /\ [][ProgressNext]_vars
    /\ WF_vars(UncancelledRunStep)
    /\ WF_vars((Tick \/ TickAtHorizon)
                  /\ pc \in {"syncUp_select", "wait_select"})

\* The goroutine of Run keeps running while a step is possible (every external
\* call returns), and a select statement whose ctx.Done() case is ready again
\* and again eventually takes that case (Go chooses uniformly at random among
\* the ready cases).
LiveSpec ==
    /\ Init /\ [][Next]_vars
    /\ WF_vars(RunStep)
    /\ SF_vars(WaitCtxDone)

\* ------------------------------------------------------------------------
\* findSyncPoint on its own: syncUp has listed the filesystems and is about
\* to call findSyncPoint, at any time of the clock and for any answers of
\* ZFSListFilesystemVersions; the call returns, and the select of syncUp
\* takes its timer branch if the sync point has come.
\* ------------------------------------------------------------------------
FindInit ==
    /\ state = "SyncUp"
    /\ now \in 1..MaxTime
    /\ lastInvocation \in 1..now
    /\ plan = [f \in {} |-> PendingProgress]
    /\ sleepUntil = ZeroTime
    /\ err = "nil"
    /\ hooks \in [pre : BOOLEAN, post : BOOLEAN, keep : BOOLEAN]
    /\ interval \in 1..MaxInterval
    /\ prefix \in Prefixes
    /\ cfg = [prefix |-> prefix, interval |-> interval, hooks |-> hooks]
    /\ built = "snapper"
    /\ hookCall = NoHookCall
    /\ pc = "syncUp_list"
    /\ fsLeft = {}
    /\ cur = NoFS
    /\ progress = PendingProgress
    /\ hadErr = FALSE
    /\ preHookErr = "nil"
    /\ snapErr = "nil"
    /\ postHookErr = "none"
    /\ ctxDone = FALSE
    /\ chanLen = 0
    /\ calls = NoRound
    /\ preFailed = FALSE
    /\ postFailed = FALSE
    /\ sends = << >>
    /\ listed = {}
    /\ invocations = << >>
    /\ \E fss \in SUBSET FSes :
         \E vers \in [fss -> VersionLists] :
            syncCall = FindSyncPointCalled(fss, vers, now)
    /\ logWriter = NoLogWriter
    /\ snapname = NoSnapname
    /\ hookEnv = NoEnv
    /\ hookCmd = NoHookCmd
    /\ dp = NoPaths
    /\ prevNames = [f \in FSes |-> NoName]

\* syncPoint, err := findSyncPoint(...) and the updater call that stores it
SyncUpFind ==
    /\ pc = "syncUp_list"
    /\ syncCall.step = "called"
    /\ syncCall' = FindSyncPointReturned(syncCall, interval)
    /\ sleepUntil' = syncCall'.syncPoint
    /\ pc' = "syncUp_select"
    /\ UNCHANGED <<state, lastInvocation, plan, err, argVars, localVars,
                   envVars, roundVars, histVars>>
    /\ UNCHANGED <<configVars, hookVars, logVars, iterVars, pathVars>>

FindNext == SyncUpFind \/ SyncUpTimer

FindSpec == FindInit /\ [][FindNext]_vars

\* ------------------------------------------------------------------------
\* findSyncPoint for filesystems with several snapshots: one filesystem of
\* the call has a history of up to two snapshots, listed in any order and
\* with any create-txg.
\* ------------------------------------------------------------------------
Histories ==
    LET vs == [CreateTXG : 1..MaxTXG, Creation : 0..(MaxTime + 1)]
    IN  {[err |-> FALSE, fsvs |-> <<v, w>>] : v \in vs, w \in vs}

TxgInit ==
    /\ state = "SyncUp"
    /\ now \in 1..MaxTime
    /\ lastInvocation = now
    /\ plan = [f \in {} |-> PendingProgress]
    /\ sleepUntil = ZeroTime
    /\ err = "nil"
    /\ hooks = [pre |-> FALSE, post |-> FALSE, keep |-> FALSE]
    /\ interval \in 1..MaxInterval
    /\ prefix \in Prefixes
    /\ cfg = [prefix |-> prefix, interval |-> interval, hooks |-> hooks]
    /\ built = "snapper"
    /\ pc = "syncUp_list"
    /\ fsLeft = {}
    /\ cur = NoFS
    /\ progress = PendingProgress
    /\ hadErr = FALSE
    /\ preHookErr = "nil"
    /\ snapErr = "nil"
    /\ postHookErr = "none"
    /\ ctxDone = FALSE
    /\ chanLen = 0
    /\ calls = NoRound
    /\ preFailed = FALSE
    /\ postFailed = FALSE
    /\ sends = << >>
    /\ listed = {}
    /\ invocations = << >>
    /\ prevNames = [f \in FSes |-> NoName]
    /\ snapname = NoSnapname
    /\ hookEnv = NoEnv
    /\ hookCall = NoHookCall
    /\ logWriter = NoLogWriter
    /\ hookCmd = NoHookCmd
    /\ dp = NoPaths
    /\ \E fss \in SUBSET FSes :
         \E d \in fss :
            \E vers \in [fss -> VersionLists \cup Histories] :
               /\ vers[d] \in Histories
               /\ \A e \in fss \ {d} : vers[e] \in VersionLists
               /\ syncCall = FindSyncPointCalled(fss, vers, now)

TxgSpec == TxgInit /\ [][FindNext]_vars

\* ------------------------------------------------------------------------
\* PeriodicFromConfig on its own: any configuration is given to it, and it
\* returns a Snapper or an error.
\* ------------------------------------------------------------------------
ConfigInit ==
    /\ cfg \in Configs
    /\ built = "none"
    /\ hookCall = NoHookCall
    /\ state = "nil"
    /\ lastInvocation = ZeroTime
    /\ plan = [f \in {} |-> PendingProgress]
    /\ sleepUntil = ZeroTime
    /\ err = "nil"
    /\ hooks = NoHooks
    /\ interval = 0
    /\ prefix = ""
    /\ pc = "new"
    /\ fsLeft = {}
    /\ cur = NoFS
    /\ progress = PendingProgress
    /\ hadErr = FALSE
    /\ preHookErr = "nil"
    /\ snapErr = "nil"
    /\ postHookErr = "none"
    /\ now = 1
    /\ ctxDone = FALSE
    /\ chanLen = 0
    /\ calls = NoRound
    /\ preFailed = FALSE
    /\ postFailed = FALSE
    /\ sends = << >>
    /\ listed = {}
    /\ invocations = << >>
    /\ syncCall = NoSyncCall
    /\ logWriter = NoLogWriter
    /\ snapname = NoSnapname
    /\ hookEnv = NoEnv
    /\ hookCmd = NoHookCmd
    /\ dp = NoPaths
    /\ prevNames = [f \in FSes |-> NoName]

\* return nil, errors.New(...)
PeriodicFromConfigErr ==
    /\ built = "none"
    /\ ~ConfigOK(cfg)
    /\ built' = "error"
    /\ UNCHANGED <<cfg, snapperVars, argVars, pc, localVars, envVars,
                   roundVars, histVars, findVars, hookVars,
                   logVars, iterVars, pathVars>>

\* return &Snapper{state: SyncUp, args: args}, nil
PeriodicFromConfigOK ==
    /\ built = "none"
    /\ ConfigOK(cfg)
    /\ built' = "snapper"
    /\ state' = "SyncUp"
    /\ prefix' = cfg.prefix
    /\ interval' = cfg.interval
    /\ hooks' = cfg.hooks
    /\ pc' = sf(state')
    /\ UNCHANGED <<cfg, lastInvocation, plan, sleepUntil, err, localVars,
                   envVars, roundVars, histVars, findVars, hookVars,
                   logVars, iterVars, pathVars>>

ConfigNext == PeriodicFromConfigErr \/ PeriodicFromConfigOK

ConfigSpec == ConfigInit /\ [][ConfigNext]_vars

\* ------------------------------------------------------------------------
\* RunHookCommand on its own: it is called with any timeout, with the
\* caller's context cancelled or not, for any program.
\* ------------------------------------------------------------------------
HookInit ==
    /\ state = "SyncUp"
    /\ lastInvocation = ZeroTime
    /\ plan = [f \in {} |-> PendingProgress]
    /\ sleepUntil = ZeroTime
    /\ err = "nil"
    /\ hooks = [pre |-> TRUE, post |-> TRUE, keep |-> FALSE]
    /\ interval = 1
    /\ prefix \in Prefixes
    /\ cfg = [prefix |-> prefix, interval |-> interval, hooks |-> hooks]
    /\ built = "snapper"
    /\ pc = "syncUp"
    /\ fsLeft = {}
    /\ cur = NoFS
    /\ progress = PendingProgress
    /\ hadErr = FALSE
    /\ preHookErr = "nil"
    /\ snapErr = "nil"
    /\ postHookErr = "none"
    /\ now = 1
    /\ ctxDone \in BOOLEAN
    /\ chanLen = 0
    /\ calls = NoRound
    /\ preFailed = FALSE
    /\ postFailed = FALSE
    /\ sends = << >>
    /\ listed = {}
    /\ invocations = << >>
    /\ syncCall = NoSyncCall
    /\ logWriter = NoLogWriter
    /\ snapname = NoSnapname
    /\ hookEnv = NoEnv
    /\ hookCmd = NoHookCmd
    /\ dp = NoPaths
    /\ prevNames = [f \in FSes |-> NoName]
    /\ \E timeout \in 0..MaxTimeout, startable \in BOOLEAN,
          program \in Programs :
            hookCall = HookCalled(now, timeout, startable, program)

HookUnchanged ==
    UNCHANGED <<snapperVars, argVars, pc, localVars, chanLen, roundVars,
                histVars, findVars, configVars, logVars, iterVars, pathVars>>

\* cmdExec.Start() when cmdCtx is already done: it returns the context's
\* error and starts nothing
HookStartCtxDone ==
    /\ hookCall.step = "called"
    /\ CmdCtxDone(ctxDone, hookCall.deadline, now)
    /\ hookCall' = [hookCall EXCEPT !.step = "returned", !.result = "err"]
    /\ UNCHANGED <<now, ctxDone>>
    /\ HookUnchanged

\* cmdExec.Start() fails: the command cannot be executed
HookStartErr ==
    /\ hookCall.step = "called"
    /\ ~CmdCtxDone(ctxDone, hookCall.deadline, now)
    /\ ~hookCall.startable
    /\ hookCall' = [hookCall EXCEPT !.step = "returned", !.result = "err"]
    /\ UNCHANGED <<now, ctxDone>>
    /\ HookUnchanged

\* cmdExec.Start() succeeds; RunHookCommand goes on to cmdExec.Wait()
HookStartOK ==
    /\ hookCall.step = "called"
    /\ ~CmdCtxDone(ctxDone, hookCall.deadline, now)
    /\ hookCall.startable
    /\ hookCall' = [hookCall EXCEPT !.step = "waiting", !.proc = "running"]
    /\ UNCHANGED <<now, ctxDone>>
    /\ HookUnchanged

\* the process exits on its own
HookExit ==
    /\ hookCall.step = "waiting"
    /\ hookCall.proc = "running"
    /\ hookCall.program # "never"
    /\ hookCall' = [hookCall EXCEPT
                      !.proc = IF hookCall.program = "exits0"
                               THEN "exit0" ELSE "exit1"]
    /\ UNCHANGED <<now, ctxDone>>
    /\ HookUnchanged

\* exec.CommandContext: the process is killed once cmdCtx is done
HookKill ==
    /\ hookCall.step = "waiting"
    /\ hookCall.proc = "running"
    /\ CmdCtxDone(ctxDone, hookCall.deadline, now)
    /\ hookCall' = [hookCall EXCEPT !.proc = "killed"]
    /\ UNCHANGED <<now, ctxDone>>
    /\ HookUnchanged

\* cmdExec.Wait() returns when the process is gone, and RunHookCommand
\* returns what it returned
HookWaitReturn ==
    /\ hookCall.step = "waiting"
    /\ hookCall.proc # "running"
    /\ hookCall' = [hookCall EXCEPT !.step = "returned",
                                    !.result = WaitResult(hookCall.proc)]
    /\ UNCHANGED <<now, ctxDone>>
    /\ HookUnchanged

\* one step of RunHookCommand and of the process it runs
HookStep ==
    \/ HookStartCtxDone \/ HookStartErr \/ HookStartOK
    \/ HookExit \/ HookKill \/ HookWaitReturn

HookTick ==
    /\ hookCall.step # "returned"
    /\ now < MaxTime
    /\ now' = now + 1
    /\ UNCHANGED <<ctxDone, hookVars>>
    /\ HookUnchanged

HookCancel ==
    /\ hookCall.step # "returned"
    /\ ~ctxDone
    /\ ctxDone' = TRUE
    /\ UNCHANGED <<now, hookVars>>
    /\ HookUnchanged

HookNext == HookStep \/ HookTick \/ HookCancel

HookSpec == HookInit /\ [][HookNext]_vars

\* The calls Start and Wait return, and the kill of a process whose context
\* is done is delivered. Nothing is assumed about the program, the clock or
\* the caller's context.
HookLiveSpec ==
    /\ HookInit /\ [][HookNext]_vars
    /\ WF_vars(HookStartCtxDone \/ HookStartErr \/ HookStartOK)
    /\ WF_vars(HookKill)
    /\ WF_vars(HookWaitReturn)

\* ------------------------------------------------------------------------
\* A logWriter of RunHookCommand on its own: the hook's output reaches it
\* as any sequence of Write calls, and the deferred Close follows the last.
\* ------------------------------------------------------------------------
\* the byte slices one call of Write can be given
Chunks == UNION {[1..n -> Bytes] : n \in 1..MaxChunk}

\* the sequences of Write calls
WriteSeqs == UNION {[1..n -> Chunks] : n \in 0..MaxWrites}

LogInit ==
    /\ state = "SyncUp"
    /\ lastInvocation = ZeroTime
    /\ plan = [f \in {} |-> PendingProgress]
    /\ sleepUntil = ZeroTime
    /\ err = "nil"
    /\ hooks = [pre |-> TRUE, post |-> FALSE, keep |-> FALSE]
    /\ interval = 1
    /\ prefix \in Prefixes
    /\ cfg = [prefix |-> prefix, interval |-> interval, hooks |-> hooks]
    /\ built = "snapper"
    /\ hookCall = NoHookCall
    /\ pc = "syncUp"
    /\ fsLeft = {}
    /\ cur = NoFS
    /\ progress = PendingProgress
    /\ hadErr = FALSE
    /\ preHookErr = "nil"
    /\ snapErr = "nil"
    /\ postHookErr = "none"
    /\ now = 1
    /\ ctxDone = FALSE
    /\ chanLen = 0
    /\ calls = NoRound
    /\ preFailed = FALSE
    /\ postFailed = FALSE
    /\ sends = << >>
    /\ listed = {}
    /\ invocations = << >>
    /\ syncCall = NoSyncCall
    /\ \E ws \in WriteSeqs :
          logWriter = [w |-> NewLogWriter, pending |-> ws,
                       written |-> << >>, closed |-> FALSE]
    /\ snapname = NoSnapname
    /\ hookEnv = NoEnv
    /\ hookCmd = NoHookCmd
    /\ dp = NoPaths
    /\ prevNames = [f \in FSes |-> NoName]

LogUnchanged ==
    UNCHANGED <<snapperVars, argVars, pc, localVars, envVars, roundVars,
                histVars, findVars, configVars, hookVars, iterVars,
                pathVars>>

\* the command writes to the pipe: w.Write(in)
LogWrite ==
    /\ ~logWriter.closed
    /\ logWriter.pending # << >>
    /\ logWriter' =
          [logWriter EXCEPT
             !.w = Write(@, Head(logWriter.pending)),
             !.pending = Tail(@),
             !.written = @ \o Head(logWriter.pending)]
    /\ LogUnchanged

\* defer logWriter.Close() at the return of RunHookCommand
LogClose ==
    /\ ~logWriter.closed
    /\ logWriter.pending = << >>
    /\ logWriter' = [logWriter EXCEPT !.w = Close(@), !.closed = TRUE]
    /\ LogUnchanged

LogNext == LogWrite \/ LogClose

LogSpec == LogInit /\ [][LogNext]_vars

\* ------------------------------------------------------------------------
\* The Snapper as PeriodicFromConfig returns it, for the specifications of
\* the functions that are followed on their own
\* ------------------------------------------------------------------------
SnapperAtStart ==
    /\ state = "SyncUp"
    /\ lastInvocation = ZeroTime
    /\ plan = [f \in {} |-> PendingProgress]
    /\ sleepUntil = ZeroTime
    /\ err = "nil"
    /\ hooks = [pre |-> TRUE, post |-> FALSE, keep |-> FALSE]
    /\ interval = 1
    /\ prefix \in Prefixes
    /\ cfg = [prefix |-> prefix, interval |-> interval, hooks |-> hooks]
    /\ built = "snapper"
    /\ pc = "syncUp"
    /\ fsLeft = {}
    /\ cur = NoFS
    /\ progress = PendingProgress
    /\ hadErr = FALSE
    /\ preHookErr = "nil"
    /\ snapErr = "nil"
    /\ postHookErr = "none"
    /\ now = 1
    /\ ctxDone = FALSE
    /\ chanLen = 0
    /\ calls = NoRound
    /\ preFailed = FALSE
    /\ postFailed = FALSE
    /\ sends = << >>
    /\ listed = {}
    /\ invocations = << >>
    /\ prevNames = [f \in FSes |-> NoName]
    /\ syncCall = NoSyncCall
    /\ snapname = NoSnapname
    /\ hookEnv = NoEnv

\* ------------------------------------------------------------------------
\* RunHookCommand from its entry to exec.CommandContext: any command
\* directory and any command
\* ------------------------------------------------------------------------
\* the characters of command directories and commands
CmdChars == {"h", Sep, "."}

\* the strings of at most n characters of cs
Strings(cs, n) == UNION {[1..k -> cs] : k \in 0..n}

CmdInit ==
    /\ SnapperAtStart
    /\ hookCall = NoHookCall
    /\ logWriter = NoLogWriter
    /\ dp = NoPaths
    /\ \E commandDir \in Strings(CmdChars, MaxPathLen) :
         \E command \in Strings(CmdChars, MaxPathLen) \ {<< >>} :
            hookCmd = [step |-> "called", commandDir |-> commandDir,
                       command |-> command]

CmdUnchanged ==
    UNCHANGED <<snapperVars, argVars, pc, localVars, envVars, roundVars,
                histVars, findVars, configVars, hookVars, logVars, iterVars,
                dp>>

\* var cmdPath string; if filepath.IsAbs(command) {...} else {...}
HookResolve ==
    /\ hookCmd.step = "called"
    /\ hookCmd' =
          [step |-> "resolved", commandDir |-> hookCmd.commandDir,
           command |-> hookCmd.command,
           cmdPath |-> CmdPath(hookCmd.commandDir, hookCmd.command)]
    /\ CmdUnchanged

\* cmdExec := exec.CommandContext(cmdCtx, cmdPath)
HookCommand ==
    /\ hookCmd.step = "resolved"
    /\ hookCmd' =
          [step |-> "command", commandDir |-> hookCmd.commandDir,
           command |-> hookCmd.command, cmdPath |-> hookCmd.cmdPath,
           lookPath |-> LookedUpInPATH(hookCmd.cmdPath)]
    /\ CmdUnchanged

CmdNext == HookResolve \/ HookCommand

CmdSpec == CmdInit /\ [][CmdNext]_vars

\* ------------------------------------------------------------------------
\* zfs.DatasetPath on its own: two paths p and q are built from any two
\* strings by NewDatasetPath; if both are returned without error, methods
\* are called on p, with q or p itself as the argument.
\* ------------------------------------------------------------------------
\* the characters of the strings given to NewDatasetPath: a letter, the
\* separator and a forbidden character
PathChars == {"a", Sep, "@"}

\* no method called yet
NoOp == [op |-> "none"]

PathInit ==
    /\ SnapperAtStart
    /\ hookCall = NoHookCall
    /\ logWriter = NoLogWriter
    /\ hookCmd = NoHookCmd
    /\ \E s \in Strings(PathChars, MaxPathLen) :
         \E t \in Strings(PathChars, MaxPathLen) :
            dp = [step |-> "strings", s |-> s, t |-> t]

PathUnchanged ==
    UNCHANGED <<snapperVars, argVars, pc, localVars, envVars, roundVars,
                histVars, findVars, configVars, hookVars, logVars, iterVars,
                hookCmd>>

\* p, err := NewDatasetPath(s)
NewDatasetPathP ==
    /\ dp.step = "strings"
    /\ dp' = [step |-> "p", s |-> dp.s, t |-> dp.t,
              p |-> NewDatasetPath(dp.s)]
    /\ PathUnchanged

\* q, err := NewDatasetPath(t)
NewDatasetPathQ ==
    /\ dp.step = "p"
    /\ dp' = [step |-> "paths", s |-> dp.s, t |-> dp.t, p |-> dp.p,
              q |-> NewDatasetPath(dp.t), fresh |-> TRUE, nops |-> 0,
              last |-> NoOp]
    /\ PathUnchanged

\* both paths were returned without error and another method may be called
MethodCall ==
    /\ dp.step = "paths"
    /\ dp.p.err = "nil"
    /\ dp.q.err = "nil"
    /\ dp.nops < MaxOps

\* p.ToString()
PathToString ==
    /\ MethodCall
    /\ dp' = [dp EXCEPT !.nops = @ + 1,
                        !.last = [op |-> "ToString",
                                  result |-> ToStr(dp.p.comps)]]
    /\ PathUnchanged

\* p.Extend(q)
PathExtend ==
    /\ MethodCall
    /\ dp' = [dp EXCEPT !.p.comps = Extend(@, dp.q.comps),
                        !.fresh = FALSE,
                        !.nops = @ + 1,
                        !.last = [op |-> "Extend"]]
    /\ PathUnchanged

\* p.TrimPrefix(q)
PathTrimPrefix ==
    /\ MethodCall
    /\ dp' = [dp EXCEPT !.p.comps = TrimPrefix(@, dp.q.comps),
                        !.fresh = FALSE,
                        !.nops = @ + 1,
                        !.last = [op |-> "TrimPrefix", alias |-> FALSE,
                                  before |-> dp.p.comps,
                                  prefix |-> dp.q.comps,
                                  prefixAfter |-> dp.q.comps]]
    /\ PathUnchanged

\* p.TrimPrefix(p): the prefix is the object that is trimmed
PathTrimPrefixSelf ==
    /\ MethodCall
    /\ dp' = [dp EXCEPT !.p.comps = TrimPrefix(@, dp.p.comps),
                        !.fresh = FALSE,
                        !.nops = @ + 1,
                        !.last = [op |-> "TrimPrefix", alias |-> TRUE,
                                  before |-> dp.p.comps,
                                  prefix |-> dp.p.comps,
                                  prefixAfter |->
                                     TrimPrefix(dp.p.comps, dp.p.comps)]]
    /\ PathUnchanged

\* p.TrimNPrefixComps(n)
PathTrimNPrefixComps ==
    /\ MethodCall
    /\ \E n \in 0..MaxPathLen :
         dp' = [dp EXCEPT !.p.comps = TrimNPrefixComps(@, n),
                          !.fresh = FALSE,
                          !.nops = @ + 1,
                          !.last = [op |-> "TrimNPrefixComps"]]
    /\ PathUnchanged

PathNext ==
    \/ NewDatasetPathP \/ NewDatasetPathQ
    \/ PathToString \/ PathExtend \/ PathTrimPrefix \/ PathTrimPrefixSelf
    \/ PathTrimNPrefixComps

PathSpec == PathInit /\ [][PathNext]_vars

TypeOK ==
    /\ state \in States
    /\ lastInvocation \in 0..MaxTime
    /\ sleepUntil \in 0..(MaxTime + MaxInterval + 1)
    /\ DOMAIN plan \subseteq FSes
    /\ chanLen \in 0..ChanCap

\* ------------------------------------------------------------------------
\* Properties
\* ------------------------------------------------------------------------
\* the step is the return of a state function to the loop of Run
Returning == pc' # pc /\ pc' \in {"syncUp", "plan", "snapshot", "wait", "done"}

\* the transition graph of the state machine
Transitions ==
    {<<"SyncUp", "Planning">>, <<"SyncUp", "SyncUpErrWait">>,
     <<"SyncUp", "Stopped">>, <<"SyncUpErrWait", "Planning">>,
     <<"SyncUpErrWait", "Stopped">>, <<"Planning", "Snapshotting">>,
     <<"Planning", "ErrorWait">>, <<"Snapshotting", "Waiting">>,
     <<"Snapshotting", "ErrorWait">>, <<"Waiting", "Planning">>,
     <<"Waiting", "Stopped">>, <<"ErrorWait", "Planning">>,
     <<"ErrorWait", "Stopped">>}

\* C1: the state starts as SyncUp and every change of it is an edge of the
\* transition graph.
C1_OnlyGraphTransitions ==
    /\ state = "SyncUp"
    /\ [][state' # state => <<state, state'>> \in Transitions]_vars

\* a second Planning entered after a round that failed
C1_Witness == state = "Planning" /\ err = "snapErr" /\ DOMAIN plan # {}

\* C2: when a round leaves Snapshotting every entry of the plan map is Done
\* or Error.
C2_RoundComplete ==
    [][pc = "snap_ret" /\ Returning =>
         \A f \in DOMAIN plan' :
            plan'[f].state \in {"SnapDone", "SnapError"}]_vars

\* zfs snapshot has been called for the current filesystem
SnapshotCalled == calls[cur].snap # "none"

\* C3: once the procedure of a filesystem is past the snapshot step, zfs
\* snapshot has been called for it if its pre-hook succeeded or is not
\* configured, and, if its pre-hook failed, exactly when keep-on-error is set.
C3_KeepOnError ==
    pc \in {"snap_post", "snap_fin"} =>
        /\ preHookErr = "nil" => SnapshotCalled
        /\ preHookErr = "err" => (SnapshotCalled <=> hooks.keep)

\* a failed pre-hook followed by the snapshot, keep-on-error being set
C3_Witness ==
    /\ pc = "snap_fin"
    /\ preHookErr = "err"
    /\ hooks.keep
    /\ SnapshotCalled

\* a zfs snapshot call of the round returned an error, or a pre-hook of the
\* round failed while keep-on-error is false
RoundFailure ==
    \/ \E f \in DOMAIN plan : calls[f].snap = "err"
    \/ preFailed /\ ~hooks.keep

\* C4: snapshot returns to ErrorWait if the round had such a failure and to
\* Waiting if it had none.
C4_RoundOutcome ==
    [][pc = "snap_ret" /\ Returning =>
         /\ RoundFailure => state' = "ErrorWait"
         /\ ~RoundFailure => state' = "Waiting"]_vars

\* a round with a failed pre-hook that ended in Waiting
C4_Witness ==
    /\ pc = "wait"
    /\ state = "Waiting"
    /\ preFailed
    /\ hooks.keep
    /\ DOMAIN plan # {}

\* C5: the progress of a filesystem whose pre-hook failed, keep-on-error
\* being false, is Error when its procedure finishes.
C5_PreHookErrorMarked ==
    [][pc = "snap_fin" /\ pc' # pc /\ preHookErr = "err" /\ ~hooks.keep =>
         progress'.state = "SnapError"]_vars

\* C6: in a round the procedure is begun at most once for a filesystem, only
\* for filesystems of the plan, and exactly once for each of them when the
\* loop is over; an answer of zfs snapshot for a filesystem is never replaced
\* by a second one in the same round.
C6_OncePerFilesystem ==
    /\ [](\A f \in FSes :
            /\ calls[f].n <= 1
            /\ calls[f].n = 1 => f \in DOMAIN plan
            /\ pc = "snap_ret" /\ f \in DOMAIN plan => calls[f].n = 1)
    /\ [][\A f \in FSes :
            calls[f].snap # "none" =>
               calls'[f].snap \in {calls[f].snap, "none"}]_vars

\* a finished loop in which one snapshot failed and another succeeded
C6_Witness ==
    /\ pc = "snap_ret"
    /\ \E f, g \in DOMAIN plan : calls[f].snap = "err" /\ calls[g].snap = "nil"

\* C7: when zfs snapshot succeeded for a filesystem and a post-hook is
\* configured, the post-hook has run when the procedure finishes.
C7_PostHookRuns ==
    pc = "snap_fin" /\ calls[cur].snap = "nil" /\ hooks.post =>
        postHookErr # "none"

\* C8: the post-hook changes neither hadErr nor err, and a round whose
\* pre-hooks and zfs snapshot calls all succeeded returns to Waiting and
\* leaves err as it was, whatever its post-hooks answered.
C8_PostHookIgnored ==
    [][/\ pc = "snap_post" => hadErr' = hadErr /\ err' = err
       /\ (pc = "snap_ret" /\ Returning /\ ~preFailed
              /\ \A f \in DOMAIN plan : calls[f].snap = "nil") =>
            state' = "Waiting" /\ err' = err]_vars

\* a round with a failed post-hook that ended in Waiting
C8_Witness == pc = "wait" /\ state = "Waiting" /\ postFailed

\* C9: once the context is cancelled, in whatever state, Run eventually
\* returns and the final state is Stopped.
C9_CancelStops == ctxDone ~> (pc = "done" /\ state = "Stopped")

\* Run has returned after a cancellation that followed at least one round
C9_Witness ==
    /\ pc = "done"
    /\ state = "Stopped"
    /\ ctxDone
    /\ DOMAIN plan # {}

\* C10 as stated: once the context is cancelled, every return of a state
\* function leaves the state Stopped.
C10_NextReturnStops == [][ctxDone /\ Returning => state' = "Stopped"]_vars

\* C10 amended: once the context is cancelled, syncUp (after a successful
\* listing) and wait return to Stopped, or to Planning if their timer has
\* fired too; the other returns do not look at the context.
C10_SelectReturnStops ==
    [][ctxDone /\ Returning =>
         \/ /\ pc \in {"syncUp_select", "wait_select"}
            /\ \/ state' = "Stopped"
               \/ state' = "Planning" /\ now >= sleepUntil
         \/ pc = "syncUp_list" /\ state' = "SyncUpErrWait"
         \/ pc = "plan_list" /\ state' \in {"Snapshotting", "ErrorWait"}
         \/ pc = "snap_ret" /\ state' \in {"Waiting", "ErrorWait"}]_vars

\* Run has returned from a select whose timer had not fired
C10_Witness ==
    /\ pc = "done"
    /\ state = "Stopped"
    /\ err = "ctxErr"
    /\ now < sleepUntil

\* ------------------------------------------------------------------------
\* C11: the state is Stopped only when the context of Run has been
\* cancelled; in Stopped, err is the cancellation error of the context and
\* the loop of Run has ended (the next state function is nil); and a step
\* taken in Stopped changes neither the state nor err.
\* ------------------------------------------------------------------------
C11_StoppedIsFinal ==
    /\ [](state = "Stopped" => ctxDone /\ err = "ctxErr" /\ pc = "done")
    /\ [][state = "Stopped" =>
            state' = "Stopped" /\ err' = err /\ pc' = "done"]_vars

\* Run has stopped after a round with errors, and steps of the environment
\* are still possible
C11_Witness ==
    /\ state = "Stopped" /\ pc = "done" /\ err = "ctxErr"
    /\ chanLen > 0 /\ lastInvocation > 1

\* ------------------------------------------------------------------------
\* C12: interval cadence. The value plan() gives lastInvocation in one
\* Planning round and the value it gives it in the next one are at least
\* interval apart, however long the round between them took (and also when
\* that round had an error).
\* ------------------------------------------------------------------------
C12_IntervalCadence ==
    Len(invocations) = 2 => invocations[2] - invocations[1] >= interval

\* a second round has begun, no error has occurred so far, and the round
\* before it (with a filesystem in its plan) took longer than interval
C12_Witness ==
    /\ pc = "plan_list" /\ err = "nil" /\ DOMAIN plan # {}
    /\ Len(invocations) = 2
    /\ invocations[2] = lastInvocation
    /\ invocations[2] - invocations[1] > interval

\* ------------------------------------------------------------------------
\* C13: whenever the state is Waiting, ErrorWait or SyncUpErrWait, as an
\* observer who holds the mutex reads the fields, sleepUntil is at least
\* lastInvocation + interval.
\* ------------------------------------------------------------------------
C13_SleepUntilCoversInterval ==
    state \in {"Waiting", "ErrorWait", "SyncUpErrWait"} =>
        sleepUntil >= lastInvocation + interval

\* ------------------------------------------------------------------------
\* C14: within a round the snapshots-taken notification is sent after the
\* procedure of every filesystem of the plan has been begun and has
\* completed (no iteration is in progress and none is left), in state
\* Snapshotting, and the state leaves Snapshotting only after the send.
\* ------------------------------------------------------------------------
AllFilesystemsDone ==
    /\ fsLeft = {}
    /\ \A f \in DOMAIN plan : calls[f].n = 1
    /\ pc \notin {"snap_pre", "snap_zfs", "snap_post", "snap_fin"}

C14_NotifyAfterAll ==
    /\ [](sends # << >> => AllFilesystemsDone)
    /\ [][sends' # sends /\ sends' # << >> =>
            AllFilesystemsDone /\ state = "Snapshotting"
            /\ state' = "Snapshotting"]_vars
    /\ [][state = "Snapshotting" /\ state' # "Snapshotting" =>
            sends # << >>]_vars

\* the notification of a round with two filesystems, one of which failed,
\* has been queued and the state is still Snapshotting
C14_Witness ==
    /\ pc = "snap_ret" /\ state = "Snapshotting"
    /\ sends = <<"queued">> /\ chanLen > 0
    /\ \E f, g \in DOMAIN plan : calls[f].snap = "err" /\ calls[g].snap = "nil"

\* ------------------------------------------------------------------------
\* C15: every Snapshotting round, with or without errors and also with an
\* empty plan, ends with exactly one send on the notification channel; the
\* send queues the value if the channel has room and otherwise leaves the
\* channel as it is; it never blocks, and the round goes on to Waiting or
\* ErrorWait.
\* ------------------------------------------------------------------------
C15_OneNonBlockingSend ==
    /\ [](Len(sends) <= 1)
    /\ [][sends' # sends /\ sends' # << >> =>
            /\ Len(sends') = Len(sends) + 1
            /\ chanLen < ChanCap => chanLen' = chanLen + 1
            /\ chanLen >= ChanCap => chanLen' = chanLen]_vars
    /\ [][pc = "snap_ret" /\ Returning =>
            Len(sends) = 1 /\ state' \in {"Waiting", "ErrorWait"}]_vars
    /\ [](pc = "snap_loop" /\ fsLeft = {} => ENABLED SnapNotify)
    /\ [](pc = "snap_ret" => ENABLED SnapReturn)

\* a round with an empty plan has ended in Waiting, and the value of its
\* send was discarded because the channel was full
C15_Witness ==
    /\ pc = "wait" /\ state = "Waiting" /\ DOMAIN plan = {}
    /\ sends = <<"discarded">> /\ chanLen = ChanCap

\* ------------------------------------------------------------------------
\* Claims about findSyncPoint. They read the record of the call: its
\* argument fss, the answers fsvs of the listing, its local now, its slice
\* snaptimes and its results.
\* ------------------------------------------------------------------------
\* the element of a non-empty listing with the greatest CreateTXG, the last
\* one of them in the listing if several have it
LastByTXG(l) ==
    l[CHOOSE i \in 1..Len(l) :
        \A j \in 1..Len(l) :
            \/ l[j].CreateTXG < l[i].CreateTXG
            \/ l[j].CreateTXG = l[i].CreateTXG /\ j <= i]

\* the listing of d succeeded and has a snapshot with the prefix
HasHistory(d) == ~syncCall.fsvs[d].err /\ Len(syncCall.fsvs[d].fsvs) > 0

\* the creation time of the latest snapshot of d
LatestCreation(d) == LastByTXG(syncCall.fsvs[d].fsvs).Creation

\* the later of two times
MaxOf(a, b) == IF a >= b THEN a ELSE b

Returned == syncCall.step = "returned"

\* C16: sync-point monotonicity. Whatever the filesystems and their snapshot
\* histories, listing errors and snapshots from the future included, the
\* sync point findSyncPoint returns is not earlier than the now it computed
\* it at, and is what syncUp stores as sleepUntil.
C16_SyncPointNotBeforeNow ==
    Returned =>
        syncCall.syncPoint >= syncCall.now /\ sleepUntil = syncCall.syncPoint

\* one filesystem has a snapshot from the future, another one a snapshot
\* older than interval, and the sync point is now
C16_Witness ==
    /\ Returned
    /\ \E d, e \in syncCall.fss :
         /\ HasHistory(d) /\ LatestCreation(d) > syncCall.now
         /\ HasHistory(e) /\ LatestCreation(e) + interval < syncCall.now
    /\ syncCall.syncPoint = syncCall.now

\* C17 as stated: sync-point earliness. Every filesystem whose latest
\* prefixed snapshot was created at t has the proposal max(t + interval, now).
C17_ProposalIsMax ==
    Returned =>
        \A d \in syncCall.fss :
            HasHistory(d) =>
                /\ d \in DOMAIN syncCall.snaptimes
                /\ syncCall.snaptimes[d] =
                       MaxOf(LatestCreation(d) + interval, syncCall.now)

\* C17 amended: every filesystem whose latest prefixed snapshot was created
\* at a time t that is not later than now has the proposal
\* max(t + interval, now).
C17_ProposalIsMaxUnlessFuture ==
    Returned =>
        \A d \in syncCall.fss :
            HasHistory(d) /\ LatestCreation(d) <= syncCall.now =>
                /\ d \in DOMAIN syncCall.snaptimes
                /\ syncCall.snaptimes[d] =
                       MaxOf(LatestCreation(d) + interval, syncCall.now)

\* one filesystem proposes a time after now, another one proposes now
C17_Witness ==
    /\ Returned
    /\ \E d, e \in DOMAIN syncCall.snaptimes :
         /\ LatestCreation(d) <= syncCall.now
         /\ syncCall.snaptimes[d] = LatestCreation(d) + interval
         /\ syncCall.snaptimes[d] > syncCall.now
         /\ LatestCreation(e) + interval < syncCall.now
         /\ syncCall.snaptimes[e] = syncCall.now

\* C18: when at least one filesystem contributes a proposal, the sync point
\* is the earliest of the proposals; a filesystem without prefixed history
\* contributes none, so it does not pull the sync point forward to now.
C18_EarliestProposal ==
    Returned /\ DOMAIN syncCall.snaptimes # {} =>
        /\ \E d \in DOMAIN syncCall.snaptimes :
             syncCall.syncPoint = syncCall.snaptimes[d]
        /\ \A d \in DOMAIN syncCall.snaptimes :
             syncCall.syncPoint <= syncCall.snaptimes[d]
        /\ \A d \in syncCall.fss :
             ~HasHistory(d) => d \notin DOMAIN syncCall.snaptimes

\* one filesystem has no prefixed snapshot, another one has a recent one,
\* and the sync point lies after now
C18_Witness ==
    /\ Returned
    /\ \E d, e \in syncCall.fss :
         /\ ~syncCall.fsvs[d].err /\ syncCall.fsvs[d].fsvs = << >>
         /\ HasHistory(e) /\ e \in DOMAIN syncCall.snaptimes
    /\ syncCall.syncPoint > syncCall.now

\* C19: degeneracy. When fss is empty, or no filesystem of fss has a
\* snapshot with the prefix, findSyncPoint returns now and no error, and the
\* timer branch of syncUp's select can be taken at once.
NoPrefixedHistory ==
    \A d \in syncCall.fss :
        ~syncCall.fsvs[d].err /\ syncCall.fsvs[d].fsvs = << >>

C19_Degenerate ==
    Returned /\ NoPrefixedHistory =>
        /\ syncCall.syncPoint = syncCall.now
        /\ syncCall.err = "nil"
        /\ now = syncCall.now => ENABLED SyncUpTimer

\* every filesystem was listed, none has a snapshot with the prefix, and the
\* sync point is now
C19_Witness ==
    /\ Returned
    /\ syncCall.fss = FSes
    /\ NoPrefixedHistory
    /\ syncCall.syncPoint = syncCall.now
    /\ sleepUntil = now

\* C20: a filesystem whose listing fails, or whose latest prefixed snapshot
\* was created after now, contributes no proposal; findSyncPoint returns no
\* error for it, syncUp stays in SyncUp with err untouched, and the machine
\* enters SyncUpErrWait only when no call of findSyncPoint was made.
SkippedFilesystem(d) ==
    \/ syncCall.fsvs[d].err
    \/ HasHistory(d) /\ LatestCreation(d) > syncCall.now

C20_PerFilesystemFailureSkipped ==
    /\ [](Returned =>
            /\ \A d \in syncCall.fss :
                 SkippedFilesystem(d) => d \notin DOMAIN syncCall.snaptimes
            /\ syncCall.err = "nil"
            /\ state = "SyncUp" /\ err = "nil")
    /\ [][state' = "SyncUpErrWait" /\ state # "SyncUpErrWait" =>
            syncCall = NoSyncCall /\ syncCall' = NoSyncCall]_vars
    /\ [][Returned /\ syncCall' # syncCall =>
            state' \in {"Planning", "Stopped"}]_vars

\* the listing of one filesystem failed, the latest snapshot of the other
\* one is from the future, no proposal was made, and syncUp goes on to its
\* select with the sync point now
C20_Witness ==
    /\ pc = "syncUp_select" /\ state = "SyncUp" /\ Returned
    /\ \E d, e \in syncCall.fss :
         /\ syncCall.fsvs[d].err
         /\ HasHistory(e) /\ LatestCreation(e) > syncCall.now
    /\ DOMAIN syncCall.snaptimes = {}
    /\ sleepUntil = syncCall.now

\* ------------------------------------------------------------------------
\* C21: aligned start.
\* ------------------------------------------------------------------------
\* the job has one filesystem, d, and the latest prefixed snapshot of d
OnlyFilesystem(d) == Returned /\ syncCall.fss = {d} /\ HasHistory(d)

\* Planning is entered from syncUp only when the computed sync point has
\* come, sleepUntil keeps the sync point until wait replaces it, and a
\* procedure of a filesystem (hook, zfs snapshot) is begun only in
\* Snapshotting, when sleepUntil has come.
NothingBeforeSyncPoint ==
    /\ [][pc = "syncUp_select" /\ state' = "Planning" =>
            now >= syncCall.syncPoint /\ sleepUntil = syncCall.syncPoint]_vars
    /\ [][sleepUntil' # sleepUntil => pc \in {"syncUp_list", "wait"}]_vars
    /\ [](state \in {"Planning", "Snapshotting"} => now >= sleepUntil)
    /\ [](\A f \in FSes :
            calls[f].n > 0 /\ pc # "wait" =>
                state = "Snapshotting" /\ now >= sleepUntil)

\* C21 as stated: nothing happens before the sync point, and for a job whose
\* only filesystem has its latest prefixed snapshot at t with
\* now - t < interval, the sync point the first round waits for is at least
\* t + interval.
C21_AlignedStart ==
    /\ NothingBeforeSyncPoint
    /\ [](\A d \in FSes :
            OnlyFilesystem(d)
            /\ syncCall.now - LatestCreation(d) < interval =>
                sleepUntil >= LatestCreation(d) + interval)

\* C21 amended: the same, for a latest prefixed snapshot at t with
\* 0 <= now - t < interval.
C21_AlignedStartUnlessFuture ==
    /\ NothingBeforeSyncPoint
    /\ [](\A d \in FSes :
            OnlyFilesystem(d)
            /\ syncCall.now - LatestCreation(d) >= 0
            /\ syncCall.now - LatestCreation(d) < interval =>
                sleepUntil >= LatestCreation(d) + interval)

\* the only filesystem has a recent snapshot, syncUp has slept until
\* t + interval, and the timer branch of its select is ready
C21_Witness ==
    /\ pc = "syncUp_select"
    /\ \E d \in FSes :
         /\ OnlyFilesystem(d)
         /\ LatestCreation(d) <= syncCall.now
         /\ sleepUntil = LatestCreation(d) + interval
    /\ sleepUntil > syncCall.now
    /\ now >= sleepUntil

\* ------------------------------------------------------------------------
\* C22: whenever the state is Snapshotting, the keys of plan are the
\* filesystems the listing of this round's Planning step returned, and the
\* step that enters Snapshotting stores every entry in state Pending, with
\* no name and no error.
\* ------------------------------------------------------------------------
C22_PlanIsListing ==
    /\ [](state = "Snapshotting" => DOMAIN plan = listed)
    /\ [][state # "Snapshotting" /\ state' = "Snapshotting" =>
            /\ DOMAIN plan' = listed'
            /\ \A f \in DOMAIN plan' :
                 plan'[f] = [state |-> "SnapPending", name |-> NoName,
                             err |-> "nil"]]_vars

\* the second round is in Snapshotting, and its listing returned some but
\* not all of the filesystems
C22_Witness ==
    /\ state = "Snapshotting" /\ pc = "snap_zfs"
    /\ Len(invocations) = 2
    /\ listed # {} /\ listed # FSes /\ DOMAIN plan = listed

\* ------------------------------------------------------------------------
\* C23: a failed listing in syncUp leads to SyncUpErrWait and one in plan to
\* ErrorWait; err then holds the listing error; and Planning is entered
\* from either state no earlier than interval after lastInvocation, the
\* time at which the failed step began.
\* ------------------------------------------------------------------------
C23_ListingFailure ==
    /\ [][pc = "syncUp_list" /\ pc' = "wait" =>
            (state' = "SyncUpErrWait" /\ err' = "listErr"
             /\ lastInvocation' = lastInvocation)]_vars
    /\ [][pc = "plan_list" /\ pc' = "wait" =>
            (state' = "ErrorWait" /\ err' = "listErr"
             /\ lastInvocation' = lastInvocation)]_vars
    /\ [](state \in {"SyncUpErrWait", "ErrorWait"} => err # "nil")
    /\ [][(state = "SyncUpErrWait" \/ state = "ErrorWait") =>
            (/\ lastInvocation' = lastInvocation
             /\ (state' # state => state' \in {"Planning", "Stopped"})
             /\ (state' = "Planning" =>
                    now >= lastInvocation + interval))]_vars

\* the listing of syncUp failed, wait has slept one interval, and Planning
\* is entered
C23_Witness ==
    /\ pc = "plan" /\ state = "Planning" /\ err = "listErr"
    /\ invocations = << >>
    /\ now >= lastInvocation + interval

\* ------------------------------------------------------------------------
\* C24 as stated: err holds the outcome of the most recent round; in
\* Waiting, which is entered only by a round that completed without error,
\* err holds no error.
\* ------------------------------------------------------------------------
C24_ErrIsLastOutcome == state = "Waiting" => err = "nil"

\* C24 amended: err holds the error of the most recent failure. A failed
\* listing stores the listing error and a round with errors stores the
\* round's error when the error state is entered, and a round that completes
\* without error leaves err as it was, an older error included.
C24_ErrIsLastFailure ==
    /\ [][state' # state /\ state' \in {"SyncUpErrWait", "ErrorWait"} =>
            err' = IF pc = "snap_ret" THEN "snapErr" ELSE "listErr"]_vars
    /\ [][err' # err => state' \in {"SyncUpErrWait", "ErrorWait", "Stopped"}]_vars
    /\ [][pc = "snap_ret" /\ Returning /\ state' = "Waiting" =>
            err' = err]_vars

\* the first round failed, the second one completed without error, and err
\* still holds the error of the first
C24_Witness ==
    /\ pc = "wait" /\ state = "Waiting" /\ err = "snapErr"
    /\ Len(invocations) = 2
    /\ \A f \in FSes : calls[f].snap # "err"
    /\ ~preFailed

\* ------------------------------------------------------------------------
\* C25: PeriodicFromConfig returns an error and no Snapper exactly when the
\* prefix is empty or the interval is not positive; otherwise it returns a
\* Snapper in state SyncUp whose prefix, interval and hooks are those of
\* the configuration.
\* ------------------------------------------------------------------------
BadConfig == cfg.prefix = "" \/ cfg.interval <= 0

C25_ConstructionValidates ==
    /\ built = "error" =>
         BadConfig /\ state = "nil" /\ pc = "new"
    /\ built = "snapper" =>
         /\ ~BadConfig
         /\ state = "SyncUp" /\ pc = "syncUp"
         /\ prefix = cfg.prefix
         /\ interval = cfg.interval
         /\ hooks = cfg.hooks
         /\ lastInvocation = ZeroTime /\ sleepUntil = ZeroTime
         /\ err = "nil" /\ DOMAIN plan = {}

\* a configuration with a prefix and the interval zero has been rejected
C25_Witness ==
    /\ built = "error" /\ state = "nil"
    /\ cfg.prefix # "" /\ cfg.interval = 0

\* ------------------------------------------------------------------------
\* C26: within one round, the snapshot names chosen for the filesystems of
\* the plan are pairwise distinct.
\* ------------------------------------------------------------------------
C26_NamesDistinctInRound ==
    \A f, g \in FSes :
        f # g /\ calls[f].n > 0 /\ calls[g].n > 0 =>
            calls[f].name # calls[g].name

\* ------------------------------------------------------------------------
\* Claims about RunHookCommand. They read the record of the call.
\* ------------------------------------------------------------------------
HookReturned == hookCall.step = "returned"

\* the deadline of the call has come: its timeout has elapsed or the
\* caller's context is cancelled
DeadlineExpired == ctxDone \/ now >= hookCall.deadline

\* C27: RunHookCommand returns an error if and only if the process was not
\* started, exited with a status other than zero, or was killed, and it is
\* killed only when the deadline has expired; it returns nil exactly when
\* the process exited with status zero, which a killed process has not.
C27_HookErrorIff ==
    HookReturned =>
        /\ hookCall.result \in {"nil", "err"}
        /\ hookCall.result = "err" <=>
             hookCall.proc \in {"none", "exit1", "killed"}
        /\ hookCall.result = "nil" <=> hookCall.proc = "exit0"
        /\ hookCall.proc = "killed" => DeadlineExpired
        /\ hookCall.proc = "none" => ~hookCall.startable \/ DeadlineExpired
        /\ hookCall.proc = "exit0" => hookCall.program = "exits0"
        /\ hookCall.proc = "exit1" => hookCall.program = "exits1"

\* a program that would have exited with status zero was killed when the
\* timeout elapsed, and RunHookCommand returned an error
C27_Witness ==
    /\ HookReturned /\ hookCall.result = "err"
    /\ hookCall.proc = "killed" /\ hookCall.program = "exits0"
    /\ ~ctxDone /\ now >= hookCall.deadline

RECURSIVE TerminatedLines(_)
TerminatedLines(data) ==
    IF \A i \in 1..Len(data) : data[i] # NL THEN << >>
    ELSE LET i == CHOOSE k \in 1..Len(data) :
                    data[k] = NL /\ \A j \in 1..(k - 1) : data[j] # NL
         IN  <<SubSeq(data, 1, i - 1)>>
                \o TerminatedLines(SubSeq(data, i + 1, Len(data)))

\* C29: once a logWriter is closed, the lines passed to its log function
\* begin with the newline-terminated lines of all the bytes written to it,
\* each once and in order, whatever the split of the bytes over the Write
\* calls; at most the unterminated rest follows them.
C29_EveryLineLoggedOnce ==
    logWriter.closed =>
        LET want == TerminatedLines(logWriter.written)
            got == logWriter.w.lines
        IN  /\ Len(got) \in {Len(want), Len(want) + 1}
            /\ SubSeq(got, 1, Len(want)) = want

\* the snapshot name begins with the configured prefix
BeginsWithPrefix(name) == \E t \in 0..MaxTime : name = prefix \o Suffix(t)

\* C30: for each filesystem f of a round, the pre-hook and the post-hook are
\* given ZREPL_PHASE=Snapshotting and ZREPL_FS equal to f; ZREPL_HOOKTYPE is
\* pre for the pre-hook and post for the post-hook, and the two environments
\* differ in nothing else; their ZREPL_SNAPNAME is the name passed to zfs
\* snapshot for f, and that name begins with the configured prefix.
C30_HookEnvironment ==
    \A f \in FSes :
        LET c == calls[f]
            pre == c.preEnv # NoEnv
            post == c.postEnv # NoEnv
            snap == c.snapArgs # NoSnapArgs
        IN  /\ pre => /\ c.preEnv.ZREPL_HOOKTYPE = "pre"
                      /\ c.preEnv.ZREPL_PHASE = "Snapshotting"
                      /\ c.preEnv.ZREPL_FS = DatasetPathToString(f)
                      /\ BeginsWithPrefix(c.preEnv.ZREPL_SNAPNAME)
            /\ post => /\ c.postEnv.ZREPL_HOOKTYPE = "post"
                       /\ c.postEnv.ZREPL_PHASE = "Snapshotting"
                       /\ c.postEnv.ZREPL_FS = DatasetPathToString(f)
                       /\ BeginsWithPrefix(c.postEnv.ZREPL_SNAPNAME)
            /\ snap => /\ c.snapArgs.fs = f
                       /\ BeginsWithPrefix(c.snapArgs.name)
            /\ pre /\ snap => c.preEnv.ZREPL_SNAPNAME = c.snapArgs.name
            /\ post => snap /\ c.postEnv.ZREPL_SNAPNAME = c.snapArgs.name
            /\ pre /\ post =>
                 [c.preEnv EXCEPT !.ZREPL_HOOKTYPE = "x"]
                    = [c.postEnv EXCEPT !.ZREPL_HOOKTYPE = "x"]

\* both hooks have run for each of two filesystems of one round, around a
\* successful zfs snapshot, and the clock moved between the two iterations
C30_Witness ==
    /\ \A f \in FSes :
         /\ calls[f].preEnv # NoEnv
         /\ calls[f].postEnv # NoEnv
         /\ calls[f].snap = "nil"
    /\ \E f, g \in FSes : calls[f].snapArgs.name # calls[g].snapArgs.name

\* C31: an absolute command is executed unchanged; any other command is
\* executed as the path that leads from the command directory to it (from
\* the working directory if the command directory is empty), whatever the
\* command directory is; no command is looked up in the directories of PATH.
C31_CommandResolution ==
    hookCmd.step = "command" =>
        /\ ~hookCmd.lookPath
        /\ IsAbs(hookCmd.command) => hookCmd.cmdPath = hookCmd.command
        /\ ~IsAbs(hookCmd.command) =>
              hookCmd.cmdPath
                 = IF hookCmd.commandDir = << >> THEN Clean(hookCmd.command)
                   ELSE Clean(hookCmd.commandDir \o <<Sep>>
                                 \o hookCmd.command)

\* the string has a forbidden character, or is not empty and ends in '/'
BadPathString(s) ==
    \/ \E i \in 1..Len(s) : s[i] \in {"@", "#", "|", "\t", "<", ">", "*"}
    \/ s # << >> /\ s[Len(s)] = "/"

\* C32: NewDatasetPath returns an error for every string that contains a
\* forbidden character and for every non-empty string that ends in '/'.
C32_PathValidation ==
    /\ dp.step \in {"p", "paths"} /\ BadPathString(dp.s) => dp.p.err # "nil"
    /\ dp.step = "paths" /\ BadPathString(dp.t) => dp.q.err # "nil"

\* both kinds of rejected string have been given to NewDatasetPath
C32_Witness ==
    /\ dp.step = "paths"
    /\ \E i \in 1..Len(dp.s) : dp.s[i] = "@"
    /\ dp.p.err # "nil"
    /\ dp.t = <<"a", "/">>
    /\ dp.q.err # "nil"

\* C33: for every string s without forbidden character that does not end in
\* '/', the empty string included, NewDatasetPath(s) returns no error and
\* ToString of the path it returns is s.
C33_PathRoundTrip ==
    /\ dp.step \in {"p", "paths"} /\ ~BadPathString(dp.s) => dp.p.err = "nil"
    /\ (dp.step = "paths" /\ ~BadPathString(dp.s) /\ dp.fresh
          /\ dp.last.op = "ToString") => dp.last.result = dp.s

\* ToString has given back a string of two components
C33_Witness ==
    /\ dp.step = "paths"
    /\ dp.fresh
    /\ dp.last.op = "ToString"
    /\ dp.s = <<"a", "/", "a">>
    /\ dp.last.result = <<"a", "/", "a">>

\* every component of the path is a non-empty string
NonEmptyComps(comps) == \A i \in 1..Len(comps) : comps[i] # << >>

\* C34: a path that NewDatasetPath returned without error has only
\* non-empty components, and so has the path after any calls of Extend,
\* TrimPrefix and TrimNPrefixComps.
C34_NonEmptyComponents ==
    /\ dp.step \in {"p", "paths"} /\ dp.p.err = "nil"
          => NonEmptyComps(dp.p.comps)
    /\ dp.step = "paths" /\ dp.q.err = "nil" => NonEmptyComps(dp.q.comps)

\* what the claim says of a call of TrimPrefix: b is the path before the
\* call, pre the prefix before the call, after the path after the call and
\* preAfter the prefix after the call
TrimPrefixContract(b, pre, after, preAfter) ==
    LET isPrefix == Len(pre) <= Len(b) /\ SubSeq(b, 1, Len(pre)) = pre
    IN  /\ ~isPrefix => after = b
        /\ isPrefix => /\ Len(after) = Len(b) - Len(pre)
                       /\ Equal(Extend(Copy(pre), after), b)
        /\ pre = b => after = << >>
        /\ preAfter = pre

\* C40 as stated: TrimPrefix(prefix) leaves the path as it is when prefix
\* is not a component-wise prefix of it, and otherwise removes exactly the
\* components of prefix, so that a copy of prefix extended with the trimmed
\* path is Equal to the original; the prefix argument is never modified.
C40_TrimPrefix ==
    dp.step = "paths" /\ dp.last.op = "TrimPrefix" =>
        TrimPrefixContract(dp.last.before, dp.last.prefix, dp.p.comps,
                           dp.last.prefixAfter)

\* C40, amended: the same for every call whose prefix argument is another
\* object than the path that is trimmed.
C40_TrimPrefixOfOtherPath ==
    dp.step = "paths" /\ dp.last.op = "TrimPrefix" /\ ~dp.last.alias =>
        TrimPrefixContract(dp.last.before, dp.last.prefix, dp.p.comps,
                           dp.last.prefixAfter)

\* a path of two components has lost its first component to TrimPrefix
C40_Witness ==
    /\ dp.step = "paths"
    /\ dp.last.op = "TrimPrefix"
    /\ ~dp.last.alias
    /\ dp.last.before = <<<<"a">>, <<"a">>>>
    /\ dp.last.prefix = <<<<"a">>>>
    /\ dp.p.comps = <<<<"a">>>>

\* the pre-hook, zfs snapshot, the post-hook have been called for f
PreRan(f) == calls[f].preEnv # NoEnv
SnapRan(f) == calls[f].snapArgs # NoSnapArgs
PostRan(f) == calls[f].postEnv # NoEnv

\* the procedure of filesystem f is under way
InProgress(f) ==
    cur = f /\ pc \in {"snap_pre", "snap_zfs", "snap_post", "snap_fin"}

\* what is true of the calls of a round at any moment: zfs snapshot comes
\* after the configured pre-hook, the post-hook after a zfs snapshot that
\* succeeded
CallOrder ==
    \A f \in FSes :
        /\ SnapRan(f) /\ hooks.pre => PreRan(f)
        /\ PostRan(f) => SnapRan(f) /\ calls[f].snap = "nil"
        /\ PreRan(f) \/ SnapRan(f) \/ PostRan(f) => calls[f].n = 1

\* what is true of every step inside a round: it calls a hook or zfs
\* snapshot for the one filesystem whose procedure is under way, the pre-hook
\* before zfs snapshot and both before the post-hook, and it begins a
\* procedure only when none is under way
OneCallAtATime ==
    pc # "wait" =>
        \A f \in FSes :
            /\ calls'[f] # calls[f] /\ calls'[f].n = calls[f].n =>
                  /\ InProgress(f)
                  /\ \A g \in FSes \ {f} : calls'[g] = calls[g]
            /\ PreRan(f)' /\ ~PreRan(f) =>
                  pc = "snap_pre" /\ ~SnapRan(f) /\ ~PostRan(f)
            /\ SnapRan(f)' /\ ~SnapRan(f) => pc = "snap_zfs" /\ ~PostRan(f)
            /\ PostRan(f)' /\ ~PostRan(f) => pc = "snap_post"
            /\ calls'[f].n # calls[f].n =>
                  /\ \A g \in FSes : ~InProgress(g)
                  /\ InProgress(f)'
                  /\ \A g \in FSes \ {f} : calls'[g] = calls[g]

\* C35: within a round the work is sequential: for each filesystem the
\* pre-hook (if configured) comes first, then zfs snapshot, then the
\* post-hook; the post-hook is never called for a filesystem whose snapshot
\* was skipped or failed; the procedure of one filesystem is over before
\* the next begins, so at most one hook or snapshot call is under way.
C35_SequentialRound == []CallOrder /\ [][OneCallAtATime]_vars

\* one filesystem has had pre-hook, snapshot and post-hook, and the next
\* one has had its pre-hook and waits for zfs snapshot
C35_Witness ==
    \E f, g \in FSes :
        /\ f # g
        /\ PreRan(f) /\ SnapRan(f) /\ PostRan(f)
        /\ InProgress(g) /\ pc = "snap_zfs"
        /\ PreRan(g) /\ ~SnapRan(g)

\* C37: for each filesystem, the snapshot findSyncPoint takes as latest is
\* one with the greatest create-txg among its prefixed snapshots, the one
\* listed last if several have it, and the proposal is computed from the
\* creation time of that snapshot (none if it is from the future), even
\* when another snapshot of the filesystem was created later.
C37_LatestByCreateTXG ==
    Returned =>
        \A d \in syncCall.fss :
            HasHistory(d) =>
                IF LatestCreation(d) > syncCall.now
                THEN d \notin DOMAIN syncCall.snaptimes
                ELSE /\ d \in DOMAIN syncCall.snaptimes
                     /\ syncCall.snaptimes[d] =
                           MaxOf(LatestCreation(d) + interval, syncCall.now)

\* the snapshot with the greatest create-txg is listed first and was created
\* before the other one, and the proposal is the one its creation time gives
C37_Witness ==
    /\ Returned
    /\ \E d \in DOMAIN syncCall.snaptimes :
         LET l == syncCall.fsvs[d].fsvs
         IN  /\ Len(l) = 2
             /\ l[1].CreateTXG > l[2].CreateTXG
             /\ l[1].Creation < l[2].Creation
             /\ syncCall.snaptimes[d]
                   = MaxOf(l[1].Creation + interval, syncCall.now)
             /\ syncCall.snaptimes[d]
                   # MaxOf(l[2].Creation + interval, syncCall.now)

\* C38: for one filesystem, the snapshot name chosen in a round differs
\* from the name chosen for it in every earlier round of the same Run,
\* whatever the positive interval.
C38_NamesDistinctAcrossRounds ==
    \A f \in FSes :
        calls[f].n > 0 /\ prevNames[f] # NoName =>
            calls[f].name # prevNames[f]

\* C36: if the context is never cancelled and every external call returns,
\* the machine is in Planning infinitely often; from SyncUp and from each of
\* SyncUpErrWait, Waiting and ErrorWait it eventually reaches Planning, and
\* every Snapshotting step ends in Waiting or ErrorWait.
C36_Progress ==
    /\ []<>(state = "Planning")
    /\ (state = "SyncUp" \/ state = "SyncUpErrWait" \/ state = "Waiting"
          \/ state = "ErrorWait") ~> (state = "Planning")
    /\ (state = "Snapshotting")
          ~> (state = "Waiting" \/ state = "ErrorWait")

\* Planning is entered from the wait after a failed round, a wait in which
\* the clock ticked at the horizon
C36_Witness ==
    /\ pc = "plan"
    /\ state = "Planning"
    /\ err = "snapErr"
    /\ now = MaxTime
    /\ invocations = << >>

\* the machine waits after a listing of Planning that failed (the error of
\* a failed round of snapshots is another one)
AfterFailedPlanning == state = "ErrorWait" /\ err = "listErr"

\* C39: if the listing in Planning fails, the step that handles the failure
\* leaves the plan as it was and leaves lastInvocation at the value set at
\* the start of that Planning step; and from there until Planning is
\* entered again no hook is run, no zfs snapshot call is made, no
\* notification is sent, and plan and lastInvocation stay as they are.
C39_FailedPlanningFrame ==
    /\ [](AfterFailedPlanning => calls = NoRound /\ sends = << >>)
    /\ [][pc = "plan_list" /\ state' = "ErrorWait" =>
            /\ plan' = plan
            /\ lastInvocation' = lastInvocation
            /\ lastInvocation = invocations[Len(invocations)]]_vars
    /\ [][AfterFailedPlanning =>
            /\ plan' = plan
            /\ lastInvocation' = lastInvocation
            /\ calls' = calls
            /\ sends' = sends]_vars

\* the wait after a failed listing of Planning, with the plan of an earlier
\* round, one that had filesystems to snapshot, still in place
C39_Witness ==
    /\ AfterFailedPlanning
    /\ pc = "wait_select"
    /\ DOMAIN plan # {}
    /\ invocations # << >>
    /\ lastInvocation = invocations[Len(invocations)]

====
